---- MODULE Spec2Model ----
(***************************************************************************)
(* A model of the 1G1R ROM set generator (src/generate.py and              *)
(* src/modules): DAT parsing into candidates, padding, scoring, ordering   *)
(* and the selector walk; the threaded file indexer; header-rule hashing.  *)
(*                                                                         *)
(* Conventions.  A string the code inspects character by character         *)
(* (revision, version, prerelease labels) is a sequence of character       *)
(* codes (ord).  A compiled pattern is the set of game names on which      *)
(* pattern.search succeeds.  A regex match on a title is the record        *)
(* [matched, group].  A SHA-1 digest is the hashed byte sequence itself    *)
(* (a collision-free hash).  generate.py calls GameEntry.get_version and   *)
(* FileData.get_size, which classes.py defines on GameEntryHelper and      *)
(* FileDataUtils; the model resolves them to those helpers.                *)
(***************************************************************************)
EXTENDS Integers, Sequences, FiniteSets, TLC

VARIABLES
    opts,            \* main: the parsed command line options
    dat,             \* the DAT's game entries, in document order
    registry,        \* COUNTRY_REGION_CORRELATION
    hash_index,      \* main: hash_index (digest -> path or None)
    pc,              \* position of the driver thread in main
    parsed_games,    \* main: parsed_games (parent name -> candidates)
    game_pos,        \* position of the group loop in sorted(parsed_games)
    entries,         \* main: entries, the filtered list of the group
    i,               \* main: index of the candidate loop
    printed_items,   \* main: printed_items
    transfers,       \* calls of transfer_file: <<source, destination>>
    log,             \* calls of log: warnings
    selected,        \* history: the candidates on which a walk stopped
    disk,            \* the files under input_dir
    RULES,           \* generate.py: RULES
    MAX_FILE_SIZE,   \* generate.py: MAX_FILE_SIZE
    CHUNK_SIZE,      \* generate.py: CHUNK_SIZE
    THREADS,         \* generate.py: THREADS
    files_data,      \* index_files: the shared worklist
    worklist,        \* history: files_data as sorted, before any pop
    intermediate_results,  \* index_files: the shared list of partial results
    tpc,             \* position of each worker thread
    next_file,       \* process_thread_with_progress: next_file, per thread
    lock,            \* PROGRESSBAR.lock: whether it is held
    internal_file,   \* compute_hash: the bytes of the stream internal_file
    size_arg,        \* compute_hash: the argument file_size
    hasher,          \* compute_hash: the bytes given to hasher.update
    digest           \* compute_hash: the value returned

selvars == <<opts, dat, registry, parsed_games, game_pos, entries, i,
             printed_items, transfers, log, selected>>

globals == <<RULES, MAX_FILE_SIZE, CHUNK_SIZE, THREADS>>

idxvars == <<files_data, worklist, intermediate_results, tpc, next_file,
             lock>>

hashvars == <<internal_file, size_arg, hasher, digest>>

vars == <<pc, selvars, disk, hash_index, globals, idxvars, hashvars>>

None == "None"

----------------------------------------------------------------------------
(* Generic helpers                                                         *)

Range(s) == {s[k] : k \in DOMAIN s}

Max(S) == CHOOSE x \in S : \A y \in S : y <= x

RECURSIVE SumSeq(_)
SumSeq(s) == IF s = <<>> THEN 0 ELSE Head(s) + SumSeq(Tail(s))

RECURSIVE Copies(_, _)
Copies(x, n) == IF n <= 0 THEN <<>> ELSE <<x>> \o Copies(x, n - 1)

RECURSIVE Flatten(_)
Flatten(ss) == IF ss = <<>> THEN <<>> ELSE Head(ss) \o Flatten(Tail(ss))

\* The first position of item in ls, 0 when absent (1-based).
FirstPos(ls, item) ==
    IF \E k \in DOMAIN ls : ls[k] = item
    THEN CHOOSE k \in DOMAIN ls : ls[k] = item /\ \A j \in 1..(k - 1) : ls[j] # item
    ELSE 0

----------------------------------------------------------------------------
(* src/modules/utils.py                                                    *)

\* get_index: ls.index(item) (0-based), default when ls is empty or lacks item.
get_index(ls, item, default) ==
    IF FirstPos(ls, item) = 0 THEN default ELSE FirstPos(ls, item) - 1

\* check_in_pattern_list finding no pattern at all.
check_in_pattern_list_never(name, patterns) == FALSE

check_in_pattern_list(name, patterns) ==
    \E k \in DOMAIN patterns : name \in patterns[k]

to_int_list(string, multiplier) ==
    [k \in DOMAIN string |-> multiplier * string[k]]

get(ls, index) == IF index < Len(ls) THEN ls[index + 1] ELSE 0

\* str.split('.'): the parts between the dots (46), at least one part.
RECURSIVE SplitDots(_, _)
SplitDots(s, cur) ==
    IF s = <<>> THEN <<cur>>
    ELSE IF Head(s) = 46 THEN <<cur>> \o SplitDots(Tail(s), <<>>)
    ELSE SplitDots(Tail(s), Append(cur, Head(s)))

RECURSIVE JoinDots(_)
JoinDots(parts) ==
    IF Len(parts) = 1 THEN parts[1]
    ELSE parts[1] \o <<46>> \o JoinDots(Tail(parts))

add_padding(strings) ==
    LET parts_list == [k \in DOMAIN strings |-> SplitDots(strings[k], <<>>)]
        lengths == [k \in DOMAIN strings |->
                       [p \in DOMAIN parts_list[k] |-> Len(parts_list[k][p])]]
        max_parts == Max({Len(parts_list[k]) : k \in DOMAIN strings})
        max_lengths == [p \in 1..max_parts |->
                           Max({get(lengths[k], p - 1) : k \in DOMAIN strings})]
        padded(parts) == [p \in DOMAIN parts |->
                             Copies(48, max_lengths[p] - Len(parts[p])) \o parts[p]]
    IN  [k \in DOMAIN strings |-> JoinDots(padded(parts_list[k]))]

get_or_default(match, default) ==
    IF match.matched /\ match.group # <<>> THEN match.group ELSE default

----------------------------------------------------------------------------
(* src/generate.py: constants and the region registry                      *)

UNSELECTED == 10000

\* NOT_PRERELEASE = "Z"
NOT_PRERELEASE == <<90>>

RegionData(code, pattern, languages) ==
    [code |-> code, pattern |-> pattern, languages |-> languages]

\* The built-in table.  A pattern is the set of (case-folded) title elements
\* it fully matches; a pattern-less entry has the empty set.
COUNTRY_REGION_CORRELATION == <<
    RegionData("ASI", {"asia"}, <<"zh">>),
    RegionData("ARG", {"argentina"}, <<"es">>),
    RegionData("AUS", {"australia"}, <<"en">>),
    RegionData("BRA", {"brazil"}, <<"pt">>),
    RegionData("CAN", {"canada"}, <<"en", "fr">>),
    RegionData("CHN", {"china", "hong kong"}, <<"zh">>),
    RegionData("DAN", {"denmark"}, <<"da">>),
    RegionData("EUR", {"europe", "world"}, <<"en">>),
    RegionData("FRA", {"france"}, <<"fr">>),
    RegionData("FYN", {"finland"}, <<"fi">>),
    RegionData("GER", {"germany"}, <<"de">>),
    RegionData("GRE", {"greece"}, <<"el">>),
    RegionData("ITA", {"italy"}, <<"it">>),
    RegionData("JPN", {"japan", "world"}, <<"ja">>),
    RegionData("HOL", {"netherlands"}, <<"nl">>),
    RegionData("KOR", {"korea"}, <<"ko">>),
    RegionData("MEX", {"mexico"}, <<"es">>),
    RegionData("NOR", {"norway"}, <<"no">>),
    RegionData("RUS", {"russia"}, <<"ru">>),
    RegionData("SPA", {"spain"}, <<"es">>),
    RegionData("SWE", {"sweden"}, <<"sv">>),
    RegionData("USA", {"usa", "world"}, <<"en">>),
    RegionData("TAI", {"taiwan"}, <<"zh">>) >>

\* str.upper on the region codes that occur in the modelled DATs.
Upper(code) ==
    CASE code = "usa" -> "USA"
      [] code = "eur" -> "EUR"
      [] code = "jpn" -> "JPN"
      [] OTHER -> code

parse_revision(game) == get_or_default(game.rev, <<48>>)

parse_version(game) == get_or_default(game.ver, <<48>>)

parse_prerelease(match) == get_or_default(match, NOT_PRERELEASE)

\* The RegionData of every registry entry whose pattern matches the element,
\* in registry order.
RECURSIVE MatchElement(_, _)
MatchElement(element, reg) ==
    IF reg = <<>> THEN <<>>
    ELSE (IF element \in Head(reg).pattern THEN <<Head(reg)>> ELSE <<>>)
         \o MatchElement(element, Tail(reg))

parse_region_data(game, reg) ==
    LET elements == Flatten(game.sections)
    IN  Flatten([k \in DOMAIN elements |-> MatchElement(elements[k], reg)])

parse_languages(game) == game.title_languages

\* get_region_data: <<the RegionData of the code, the registry afterwards>>.
get_region_data(code0, reg) ==
    LET code == Upper(code0)
        pos == FirstPos([k \in DOMAIN reg |-> reg[k].code], code)
    IN  IF pos # 0 THEN <<reg[pos], reg>>
        ELSE <<RegionData(code, {}, <<>>),
               Append(reg, RegionData(code, {}, <<>>))>>

RECURSIVE get_languages_from(_, _)
get_languages_from(codes, languages) ==
    IF codes = <<>> THEN languages
    ELSE get_languages_from(
             Tail(codes),
             IF Head(codes) \in Range(languages) THEN languages
             ELSE Append(languages, Head(codes)))

get_languages(region_data_list) ==
    get_languages_from(
        Flatten([k \in DOMAIN region_data_list |-> region_data_list[k].languages]),
        <<>>)

is_present(code, region_data) ==
    \E k \in DOMAIN region_data : region_data[k].code = code

\* Lines 257-259: the release records merged into region_data.
RECURSIVE MergeReleases(_, _, _)
MergeReleases(releases, region_data, reg) ==
    IF releases = <<>> THEN <<region_data, reg>>
    ELSE IF Head(releases) # "" /\ ~is_present(Head(releases), region_data)
         THEN LET got == get_region_data(Head(releases), reg)
              IN  MergeReleases(Tail(releases), Append(region_data, got[1]), got[2])
         ELSE MergeReleases(Tail(releases), region_data, reg)

GameEntry(is_bad, is_prerelease, region, languages, input_index, revision, version, sample, demo, beta, proto, is_parent, name, roms) ==
    [is_bad |-> is_bad, is_prerelease |-> is_prerelease, region |-> region,
     languages |-> languages, input_index |-> input_index,
     revision |-> revision, version |-> version, sample |-> sample,
     demo |-> demo, beta |-> beta, proto |-> proto, is_parent |-> is_parent,
     name |-> name, roms |-> roms, score |-> None]

\* Lines 221-242: whether the name filters drop the game.
Filtered(game, o) ==
    \/ \E t \in {"bios", "unlicensed", "pirate", "promo", "program",
                 "enhancement_chip"} : t \in o.filters /\ t \in game.tags
    \/ "beta" \in o.filters /\ game.beta.matched
    \/ "demo" \in o.filters /\ game.demo.matched
    \/ "sample" \in o.filters /\ game.sample.matched
    \/ "proto" \in o.filters /\ game.proto.matched
    \/ check_in_pattern_list(game.name, o.exclude)

\* One iteration of the loop of parse_games (lines 215-291) on the game at
\* input_index: [games, reg, log] afterwards.
ParseGame(game, input_index, st, o) ==
    IF Filtered(game, o) THEN st
    ELSE
    LET is_parent == game.cloneof = ""
        is_prerelease == game.beta.matched \/ game.demo.matched
                         \/ game.sample.matched \/ game.proto.matched
        merged == MergeReleases(game.release,
                                parse_region_data(game, st.reg), st.reg)
        region_data == merged[1]
        languages == IF parse_languages(game) # <<>> THEN parse_languages(game)
                     ELSE get_languages(region_data)
        parent_name == IF game.cloneof # "" THEN game.cloneof ELSE game.name
        game_entries == [k \in DOMAIN region_data |->
            GameEntry(game.is_bad, is_prerelease, region_data[k].code,
                      languages, input_index, parse_revision(game),
                      parse_version(game), parse_prerelease(game.sample),
                      parse_prerelease(game.demo), parse_prerelease(game.beta),
                      parse_prerelease(game.proto), is_parent, game.name,
                      game.rom)]
        games == IF game_entries = <<>> THEN st.games
                 ELSE [n \in DOMAIN st.games \cup {parent_name} |->
                          IF n = parent_name
                          THEN (IF n \in DOMAIN st.games THEN st.games[n] ELSE <<>>)
                               \o game_entries
                          ELSE st.games[n]]
        log1 == IF game_entries = <<>>
                THEN Append(st.log, <<"no recognizable regions found", game.name>>)
                ELSE st.log
        log2 == IF game.rom = <<>>
                THEN Append(log1, <<"no ROMs found in the DAT file", game.name>>)
                ELSE log1
    IN  [games |-> games, reg |-> merged[2], log |-> log2]

RECURSIVE ParseFrom(_, _, _, _)
ParseFrom(games, input_index, st, o) ==
    IF input_index >= Len(games) THEN st
    ELSE ParseFrom(games, input_index + 1,
                   ParseGame(games[input_index + 1], input_index, st, o), o)

parse_games(games, reg, lg, o) ==
    ParseFrom(games, 0, [games |-> <<>>, reg |-> reg, log |-> lg], o)

----------------------------------------------------------------------------
(* Padding, scoring and ordering (generate.py 295-301, 794-834, 993-1021;  *)
(* classes.py 144-177)                                                     *)

\* The --languages argument stored in the order given.
selected_languages_as_given(o) == o.languages

\* Lines 580-583: the --languages argument is stored reversed.
selected_languages(o) ==
    [k \in DOMAIN o.languages |-> o.languages[Len(o.languages) + 1 - k]]

Score(region, languages, revision, version, sample, demo, beta, proto) ==
    [region |-> region, languages |-> languages, revision |-> revision,
     version |-> version, sample |-> sample, demo |-> demo, beta |-> beta,
     proto |-> proto]

\* pad_values for the six fields (lines 803-826).
pad_values(games) ==
    LET col(f) == add_padding([k \in DOMAIN games |-> games[k][f]])
        version == col("version")
        revision == col("revision")
        sample == col("sample")
        demo == col("demo")
        beta == col("beta")
        proto == col("proto")
    IN  [k \in DOMAIN games |->
            [games[k] EXCEPT !.version = version[k], !.revision = revision[k],
                             !.sample = sample[k], !.demo = demo[k],
                             !.beta = beta[k], !.proto = proto[k]]]

\* The sum of lines 1002-1004 without the + 1 on the index.
languages_score_unshifted(languages, sel_languages, language_weight) ==
    SumSeq([k \in DOMAIN languages |->
               get_index(sel_languages, languages[k], -1)
               * (0 - language_weight)])

\* Lines 1002-1004
languages_score(languages, sel_languages, language_weight) ==
    SumSeq([k \in DOMAIN languages |->
               (get_index(sel_languages, languages[k], -1) + 1)
               * (0 - language_weight)])

set_scores(games, o) ==
    [k \in DOMAIN games |->
        LET game == games[k]
        IN  [game EXCEPT !.score = Score(
                get_index(o.selected_regions, game.region, UNSELECTED),
                languages_score(game.languages, selected_languages(o),
                                o.language_weight),
                to_int_list(game.revision, IF o.revision_asc THEN 1 ELSE -1),
                to_int_list(game.version, IF o.version_asc THEN 1 ELSE -1),
                to_int_list(game.sample, -1),
                to_int_list(game.demo, -1),
                to_int_list(game.beta, -1),
                to_int_list(game.proto, -1))]]

\* GameEntryKeyGenerator.generate with the avoid-pattern test moved in front
\* of is_bad: a misordered key tuple.
generate_swapped(g, o) ==
    << check_in_pattern_list(g.name, o.avoid),
       g.is_bad,
       o.prefer_prereleases # g.is_prerelease,
       IF o.prioritize_languages THEN g.score.languages ELSE g.score.region,
       IF o.prioritize_languages THEN g.score.region ELSE g.score.languages,
       o.prefer_parents /\ ~g.is_parent,
       IF o.input_order THEN g.input_index ELSE 0,
       ~check_in_pattern_list(g.name, o.prefer),
       g.score.revision,
       g.score.version,
       g.score.sample,
       g.score.demo,
       g.score.beta,
       g.score.proto,
       0 - Len(g.languages),
       ~g.is_parent >>

\* GameEntryKeyGenerator.generate
generate(g, o) ==
    << g.is_bad,
       o.prefer_prereleases # g.is_prerelease,
       check_in_pattern_list(g.name, o.avoid),
       IF o.prioritize_languages THEN g.score.languages ELSE g.score.region,
       IF o.prioritize_languages THEN g.score.region ELSE g.score.languages,
       o.prefer_parents /\ ~g.is_parent,
       IF o.input_order THEN g.input_index ELSE 0,
       ~check_in_pattern_list(g.name, o.prefer),
       g.score.revision,
       g.score.version,
       g.score.sample,
       g.score.demo,
       g.score.beta,
       g.score.proto,
       0 - Len(g.languages),
       ~g.is_parent >>

\* A comparison of lists that looks at their first elements only.
ListLess_by_head(a, b) ==
    a # <<>> /\ b # <<>> /\ Head(a) < Head(b)

\* Python's < on lists of integers.
RECURSIVE ListLess(_, _)
ListLess(a, b) ==
    IF b = <<>> THEN FALSE
    ELSE IF a = <<>> THEN TRUE
    ELSE IF Head(a) # Head(b) THEN Head(a) < Head(b)
    ELSE ListLess(Tail(a), Tail(b))

\* Python's < on one component of the key: bool, int or list of int.
ElemLess(k, x, y) ==
    IF k \in {1, 2, 3, 6, 8, 16} THEN ~x /\ y
    ELSE IF k \in {4, 5, 7, 15} THEN x < y
    ELSE ListLess(x, y)

\* Python's < on two key tuples: decided at the first differing component.
TupleLess(a, b) ==
    \E k \in DOMAIN a :
        /\ a[k] # b[k]
        /\ \A j \in 1..(k - 1) : a[j] = b[j]
        /\ ElemLess(k, a[k], b[k])

\* A sort that is not stable: x goes before the first element whose key is
\* not smaller than x's, so before the elements with an equal key.
RECURSIVE InsertSorted_before_equal(_, _, _)
InsertSorted_before_equal(sorted, x, o) ==
    IF sorted = <<>> THEN <<x>>
    ELSE IF ~TupleLess(generate(Head(sorted), o), generate(x, o))
         THEN <<x>> \o sorted
         ELSE <<Head(sorted)>> \o InsertSorted_before_equal(Tail(sorted), x, o)

\* list.sort(key=...): stable, ascending.  x goes before the first element
\* whose key is greater than x's.
RECURSIVE InsertSorted(_, _, _)
InsertSorted(sorted, x, o) ==
    IF sorted = <<>> THEN <<x>>
    ELSE IF TupleLess(generate(x, o), generate(Head(sorted), o))
         THEN <<x>> \o sorted
         ELSE <<Head(sorted)>> \o InsertSorted(Tail(sorted), x, o)

RECURSIVE SortFrom(_, _, _)
SortFrom(games, sorted, o) ==
    IF games = <<>> THEN sorted
    ELSE SortFrom(Tail(games), InsertSorted(sorted, Head(games), o), o)

sort(games, o) == SortFrom(games, <<>>, o)

\* The body of the loop of lines 801-834 for one group.
ScoreAndSort(games, o) == sort(set_scores(pad_values(games), o), o)

----------------------------------------------------------------------------
(* src/modules/header.py: rules, and compute_hash of generate.py           *)

\* Python's seq[a:b], negative indexes counting from the end.
PySlice(s, a, b) ==
    LET n == Len(s)
        norm(x) == IF x < 0 THEN (IF x + n < 0 THEN 0 ELSE x + n)
                   ELSE IF x > n THEN n ELSE x
        lo == norm(a)
        hi == norm(b)
    IN  IF lo >= hi THEN <<>> ELSE [k \in 1..(hi - lo) |-> s[lo + k]]

\* Python's seq[a:]
PySliceFrom(s, a) == PySlice(s, a, Len(s))

\* int.from_bytes(bytes, 'big')
RECURSIVE from_bytes(_)
from_bytes(bytes) ==
    IF bytes = <<>> THEN 0
    ELSE from_bytes(SubSeq(bytes, 1, Len(bytes) - 1)) * 256 + bytes[Len(bytes)]

\* Bitwise operators on naturals; op is the operator on one bit.
RECURSIVE Bitwise(_, _, _)
Bitwise(op, x, y) ==
    IF x = 0 /\ y = 0 THEN 0
    ELSE 2 * Bitwise(op, x \div 2, y \div 2)
         + (CASE op = "and" -> (IF x % 2 = 1 /\ y % 2 = 1 THEN 1 ELSE 0)
              [] op = "or" -> (IF x % 2 = 1 \/ y % 2 = 1 THEN 1 ELSE 0)
              [] op = "xor" -> (IF x % 2 # y % 2 THEN 1 ELSE 0))

\* Rule.DataTest.apply
DataTest_apply(t, byte_arr) ==
    (from_bytes(PySlice(byte_arr, t.offset, t.end)) = t.value) = t.result

\* Rule.BooleanTest.apply
BooleanTest_apply(t, byte_arr) ==
    (Bitwise(t.kind, t.mask, from_bytes(PySlice(byte_arr, t.offset, t.end)))
         = t.value) = t.result

\* Rule.FileTest.apply for the operators equal, less and greater.
FileTest_apply(t, byte_arr) ==
    (CASE t.operator = "equal" -> Len(byte_arr) = t.size
       [] t.operator = "less" -> Len(byte_arr) < t.size
       [] t.operator = "greater" -> Len(byte_arr) > t.size) = t.result

Test_apply(t, byte_arr) ==
    CASE t.kind = "data" -> DataTest_apply(t, byte_arr)
      [] t.kind = "file" -> FileTest_apply(t, byte_arr)
      [] OTHER -> BooleanTest_apply(t, byte_arr)

\* Rule.test: every test passes.
Rule_test(rule, byte_arr) ==
    \A k \in DOMAIN rule.tests : Test_apply(rule.tests[k], byte_arr)

\* Rule.__none: the slice [start_offset, end_offset), to the end when
\* end_offset is 0 (EOF).
Rule_none(rule, byte_arr) ==
    IF rule.end_offset = 0 THEN PySliceFrom(byte_arr, rule.start_offset)
    ELSE PySlice(byte_arr, rule.start_offset, rule.end_offset)

\* Rule.__bitswap: byte_arr[::-1]
Reversed(s) == [k \in DOMAIN s |-> s[Len(s) + 1 - k]]

\* Rule.__invert_bytes: for i in range(len, 0, -chunk_size):
\*     result.extend(byte_arr[i - chunk_size:i])
RECURSIVE invert_from(_, _, _)
invert_from(byte_arr, chunk_size, k) ==
    IF k <= 0 THEN <<>>
    ELSE PySlice(byte_arr, k - chunk_size, k)
         \o invert_from(byte_arr, chunk_size, k - chunk_size)

invert_bytes(byte_arr, chunk_size) ==
    invert_from(byte_arr, chunk_size, Len(byte_arr))

\* Rule.apply
Rule_apply(rule, byte_arr) ==
    CASE rule.operation = "bitswap" -> Reversed(Rule_none(rule, byte_arr))
      [] rule.operation = "byteswap" -> invert_bytes(Rule_none(rule, byte_arr), 2)
      [] rule.operation = "wordswap" -> invert_bytes(Rule_none(rule, byte_arr), 4)
      [] rule.operation = "none" -> Rule_none(rule, byte_arr)

\* hashlib.sha1(...).hexdigest().lower(): a collision-free digest of the bytes.
Sha1(bytes) == [sha1 |-> bytes]

\* Lines 465-467: every rule whose test passes on the current bytes is applied.
RECURSIVE ApplyRules(_, _)
ApplyRules(rules, file_bytes) ==
    IF rules = <<>> THEN file_bytes
    ELSE ApplyRules(Tail(rules),
                    IF Rule_test(Head(rules), file_bytes)
                    THEN Rule_apply(Head(rules), file_bytes)
                    ELSE file_bytes)

\* Lines 470-474: the stream read in chunks until a read returns nothing;
\* read(0) returns nothing, read(n) for n < 0 reads to the end.
RECURSIVE ReadChunks(_, _)
ReadChunks(stream, chunk_size) ==
    IF chunk_size = 0 THEN <<>>
    ELSE IF chunk_size < 0 \/ stream = <<>> THEN stream
    ELSE PySlice(stream, 0, chunk_size)
         \o ReadChunks(PySliceFrom(stream, chunk_size), chunk_size)

\* compute_hash: the bytes given to the hasher.
Hashed(file_size, stream, rules, max_file_size, chunk_size) ==
    IF rules # <<>> /\ file_size <= max_file_size
    THEN ApplyRules(rules, stream)
    ELSE ReadChunks(stream, chunk_size)

compute_hash(file_size, stream, rules, max_file_size, chunk_size) ==
    Sha1(Hashed(file_size, stream, rules, max_file_size, chunk_size))

----------------------------------------------------------------------------
(* The file indexer: process_file and the merge of index_files             *)

\* A file under input_dir is [path, size, is_zip, raw, members, bad_zip,
\* io_error]: is_zipfile(path); its raw bytes; the members of the archive,
\* each [is_dir, data, bad, error] (bad: reading it raises BadZipFile;
\* error: reading it raises an exception of another class); whether
\* opening the archive raises BadZipFile; whether opening the raw file
\* raises IOError.
FileAt(files, path) == CHOOSE f \in files : f.path = path

is_zipfile(files, path) ==
    \E f \in files : f.path = path /\ f.is_zip

FileData(size, path) == [size |-> size, path |-> path]

\* dict[key] = value
Put(dict, key, value) ==
    [k \in DOMAIN dict \cup {key} |-> IF k = key THEN value ELSE dict[k]]

EmptyDict == [k \in {} |-> None]

\* Lines 425-431: the members read in order until one raises.
RECURSIVE ReadMembers(_, _, _, _, _, _)
ReadMembers(infos, full_path, result, rules, max_file_size, chunk_size) ==
    IF infos = <<>> THEN result
    ELSE IF Head(infos).is_dir
         THEN ReadMembers(Tail(infos), full_path, result, rules,
                          max_file_size, chunk_size)
    ELSE IF Head(infos).bad \/ Head(infos).error THEN result
    ELSE ReadMembers(
             Tail(infos), full_path,
             Put(result,
                 compute_hash(Len(Head(infos).data), Head(infos).data, rules,
                              max_file_size, chunk_size),
                 full_path),
             rules, max_file_size, chunk_size)

\* Lines 425-431: the first member that cannot be read raises an exception
\* that is no BadZipFile.
RECURSIVE MembersRaise(_)
MembersRaise(infos) ==
    IF infos = <<>> THEN FALSE
    ELSE IF Head(infos).is_dir THEN MembersRaise(Tail(infos))
    ELSE IF Head(infos).bad THEN FALSE
    ELSE Head(infos).error \/ MembersRaise(Tail(infos))

\* process_file raises: lines 421-440 catch BadZipFile only, so any other
\* exception of the archive branch leaves the function.
process_file_raises(files, file_data) ==
    LET f == FileAt(files, file_data.path)
    IN  f.is_zip /\ ~f.bad_zip /\ MembersRaise(f.members)

\* process_file, when it returns
process_file(files, file_data, also_check_archive, rules, max_file_size, chunk_size) ==
    LET full_path == file_data.path
        f == FileAt(files, full_path)
        is_zip == f.is_zip
        zipped == IF is_zip /\ ~f.bad_zip
                  THEN ReadMembers(f.members, full_path, EmptyDict, rules,
                                   max_file_size, chunk_size)
                  ELSE EmptyDict
        raw_digest == compute_hash(Len(f.raw), f.raw, rules, max_file_size,
                                   chunk_size)
    IN  IF (~is_zip \/ also_check_archive) /\ ~f.io_error
        THEN (IF raw_digest \notin DOMAIN zipped
                 \/ (zipped[raw_digest] # None
                     /\ is_zipfile(files, zipped[raw_digest]))
              THEN Put(zipped, raw_digest, full_path)
              ELSE zipped)
        ELSE zipped

\* Lines 394-397 without the test that the key is one of the partial result:
\* every digest not yet held by an archive gets the path of the file.
MergeOne_any_key(files, result, intermediate_result) ==
    [key \in DOMAIN result |->
        IF DOMAIN intermediate_result # {}
           /\ ~(result[key] # None /\ is_zipfile(files, result[key]))
        THEN intermediate_result[CHOOSE k \in DOMAIN intermediate_result : TRUE]
        ELSE result[key]]

\* Lines 394-397: one partial result merged into result.
MergeOne(files, result, intermediate_result) ==
    [key \in DOMAIN result |->
        IF key \in DOMAIN intermediate_result
           /\ ~(result[key] # None /\ is_zipfile(files, result[key]))
        THEN intermediate_result[key]
        ELSE result[key]]

\* Lines 393-397
RECURSIVE MergeAll(_, _, _)
MergeAll(files, result, results) ==
    IF results = <<>> THEN result
    ELSE MergeAll(files, MergeOne(files, result, Head(results)), Tail(results))

\* Lines 322-325: every declared digest, mapped to None.
DeclaredDigests(games) ==
    UNION {{games[g].rom[r].sha1 : r \in DOMAIN games[g].rom} : g \in DOMAIN games}

\* ZIP_REGEX.search(rom_entry.name): the rom names that end in .zip.
ZIP_REGEX_search(name) == name \in {"pack.zip"}

also_check_archive_of(games) ==
    \E g \in DOMAIN games : \E r \in DOMAIN games[g].rom :
        ZIP_REGEX_search(games[g].rom[r].name)

----------------------------------------------------------------------------
(* Values of the variables a specification does not use                    *)

SelIdle ==
    /\ opts = None /\ registry = COUNTRY_REGION_CORRELATION
    /\ parsed_games = None /\ game_pos = 0 /\ entries = <<>> /\ i = 0
    /\ printed_items = <<>> /\ transfers = <<>> /\ log = <<>>
    /\ selected = <<>>

IdxIdle ==
    /\ files_data = <<>> /\ worklist = <<>> /\ intermediate_results = <<>>
    /\ tpc = <<>> /\ next_file = <<>> /\ lock = FALSE

HashIdle ==
    /\ internal_file = <<>> /\ size_arg = 0 /\ hasher = <<>> /\ digest = None

----------------------------------------------------------------------------
(* Hashing one stream: compute_hash under the loaded header rules          *)

\* The program's defaults (generate.py 29-33).
DEFAULT_THREADS == 4

DEFAULT_CHUNK_SIZE == 33554432

DEFAULT_MAX_FILE_SIZE == 268435456

\* Bounds of the hashing model.
MaxBufLen == 8

MaxShortLen == 2

MaxRules == 2

SmallChunk == 3

SmallCap == 3

Rule(start_offset, end_offset, operation, tests) ==
    [start_offset |-> start_offset, end_offset |-> end_offset,
     operation |-> operation, tests |-> tests]

DataTest(value, offset, len, result) ==
    [kind |-> "data", value |-> value, offset |-> offset, end |-> offset + len,
     result |-> result]

BooleanTest(operation, mask, value, offset, len, result) ==
    [kind |-> operation, mask |-> mask, value |-> value, offset |-> offset,
     end |-> offset + len, result |-> result]

FileTest(size, result, operator) ==
    [kind |-> "file", size |-> size, result |-> result, operator |-> operator]

\* The rules header files are drawn from: the four operations on the whole
\* buffer, and header-stripping rules guarded by each kind of test.
RulePool == {
    Rule(0, 0, "none", <<>>),
    Rule(0, 0, "bitswap", <<>>),
    Rule(0, 0, "byteswap", <<>>),
    Rule(0, 0, "wordswap", <<>>),
    Rule(1, 0, "none", <<DataTest(1, 0, 1, TRUE)>>),
    Rule(1, 3, "byteswap", <<BooleanTest("and", 1, 1, 0, 1, FALSE)>>),
    Rule(2, 0, "wordswap", <<FileTest(4, TRUE, "greater"),
                             BooleanTest("xor", 3, 2, 0, 1, TRUE)>>) }

RuleLists == UNION {[1..n -> RulePool] : n \in 0..MaxRules}

Ramp(n) == [k \in 1..n |-> k]

Buffers ==
    {Ramp(n) : n \in 0..MaxBufLen}
    \cup UNION {[1..n -> {0, 1, 2}] : n \in 0..MaxShortLen}

\* The values of CHUNK_SIZE: the default, a chunk smaller than the buffers, and
\* the values --chunk-size 0 and --chunk-size -1 leave (line 645 takes any
\* integer and no check follows).
HashChunkSizes == {DEFAULT_CHUNK_SIZE, SmallChunk, 0, -1}

InitHash ==
    /\ SelIdle /\ IdxIdle
    /\ dat = <<>> /\ disk = {} /\ hash_index = EmptyDict
    /\ THREADS = DEFAULT_THREADS
    /\ RULES \in RuleLists
    /\ MAX_FILE_SIZE \in {DEFAULT_MAX_FILE_SIZE, SmallCap}
    /\ CHUNK_SIZE \in HashChunkSizes
    /\ internal_file \in Buffers
    /\ size_arg = Len(internal_file)
    /\ hasher = <<>>
    /\ digest = None
    /\ pc = "hash"

\* compute_hash(file_size, internal_file)
ComputeHash ==
    /\ pc = "hash"
    /\ hasher' = Hashed(size_arg, internal_file, RULES, MAX_FILE_SIZE, CHUNK_SIZE)
    /\ digest' = compute_hash(size_arg, internal_file, RULES, MAX_FILE_SIZE,
                              CHUNK_SIZE)
    /\ pc' = "hashed"
    /\ UNCHANGED <<selvars, disk, hash_index, globals, idxvars,
                   internal_file, size_arg>>

NextHash == ComputeHash

SpecHash == InitHash /\ [][NextHash]_vars

RulesApply == RULES # <<>> /\ size_arg <= MAX_FILE_SIZE

\* The transform of the first rule whose tests pass on the buffer, the
\* buffer itself when none passes.
RECURSIVE FirstMatching(_, _)
FirstMatching(rules, byte_arr) ==
    IF rules = <<>> THEN byte_arr
    ELSE IF Rule_test(Head(rules), byte_arr) THEN Rule_apply(Head(rules), byte_arr)
    ELSE FirstMatching(Tail(rules), byte_arr)

\* C9: with rules loaded and the buffer within the cap, the digest is that
\* of the buffer transformed by only the first rule whose tests pass on the
\* original buffer (unchanged when none passes).
C9_FirstMatchingRuleOnly ==
    (pc = "hashed" /\ RulesApply)
        => digest = Sha1(FirstMatching(RULES, internal_file))

\* The bytes of every chunk of chunk_size reversed in place.
SwapWithinChunks(s, chunk_size) ==
    [k \in DOMAIN s |->
        s[((k - 1) \div chunk_size) * chunk_size
          + (chunk_size - ((k - 1) % chunk_size))]]

ChunkOf(operation) == IF operation = "byteswap" THEN 2 ELSE 4

\* C10: byteswap reverses the bytes within every 2-byte chunk of the slice
\* and wordswap within every 4-byte chunk, the chunks keeping their places.
C10_SwapWithinChunks ==
    (/\ pc = "hashed" /\ RulesApply /\ Len(RULES) = 1
     /\ RULES[1].operation \in {"byteswap", "wordswap"}
     /\ Rule_test(RULES[1], internal_file)
     /\ Len(Rule_none(RULES[1], internal_file)) % ChunkOf(RULES[1].operation) = 0)
        => hasher = SwapWithinChunks(Rule_none(RULES[1], internal_file),
                                     ChunkOf(RULES[1].operation))

\* C11: byteswap and wordswap on a slice whose length is not a multiple of
\* the chunk size give as many bytes as the slice has, the leftover partial
\* chunk (the first bytes of the slice) unchanged at the start.
C11_PartialChunkKept ==
    (/\ pc = "hashed" /\ RulesApply /\ Len(RULES) = 1
     /\ RULES[1].operation \in {"byteswap", "wordswap"}
     /\ Rule_test(RULES[1], internal_file)
     /\ Len(Rule_none(RULES[1], internal_file)) % ChunkOf(RULES[1].operation) # 0)
        => LET slice == Rule_none(RULES[1], internal_file)
               left == Len(slice) % ChunkOf(RULES[1].operation)
           IN  /\ Len(hasher) = Len(slice)
               /\ SubSeq(hasher, 1, left) = SubSeq(slice, 1, left)

----------------------------------------------------------------------------
(* The DAT: game entries as the deserializer and the title regexes see them *)

NoMatch == [matched |-> FALSE, group |-> <<>>]

Match(group) == [matched |-> TRUE, group |-> group]

Rom(name, sha1) == [name |-> name, sha1 |-> sha1]

\* A released, good dump without revision, version or category tags.
Game(name, cloneof, sections, release, title_languages, rom) ==
    [name |-> name, cloneof |-> cloneof, sections |-> sections,
     release |-> release, title_languages |-> title_languages, rom |-> rom,
     is_bad |-> FALSE, tags |-> {}, beta |-> NoMatch, demo |-> NoMatch,
     sample |-> NoMatch, proto |-> NoMatch, rev |-> NoMatch, ver |-> NoMatch]

----------------------------------------------------------------------------
(* Indexing: index_files with its worker threads                           *)

\* Bounds of the indexing model.
MaxFiles == 3

MaxThreads == 2

File(path, size, is_zip, raw, members) ==
    [path |-> path, size |-> size, is_zip |-> is_zip, raw |-> raw,
     members |-> members, bad_zip |-> FALSE, io_error |-> FALSE]

Member(data) ==
    [is_dir |-> FALSE, data |-> data, bad |-> FALSE, error |-> FALSE]

DirMember == [is_dir |-> TRUE, data |-> <<>>, bad |-> FALSE, error |-> FALSE]

BadMember(data) ==
    [is_dir |-> FALSE, data |-> data, bad |-> TRUE, error |-> FALSE]

\* A member whose compressed data is damaged: reading it raises zlib.error.
ErrorMember(data) ==
    [is_dir |-> FALSE, data |-> data, bad |-> FALSE, error |-> TRUE]

\* The files input_dir is drawn from: bare files and archives holding the
\* same contents, an archive with an unreadable member, a corrupt archive
\* that cannot be read raw either, and an archive with a damaged member.
FilePool == {
    File("a.bin", 2, FALSE, <<1, 2>>, <<>>),
    File("sub/b.bin", 2, FALSE, <<1, 2>>, <<>>),
    File("d.zip", 3, TRUE, <<80, 75, 2>>,
         <<Member(<<1, 2>>), DirMember, Member(<<3>>)>>),
    File("e.zip", 3, TRUE, <<80, 75, 3>>,
         <<Member(<<3>>), BadMember(<<1, 2>>), Member(<<2>>)>>),
    [File("f.zip", 2, TRUE, <<80, 75>>, <<Member(<<3>>)>>)
        EXCEPT !.bad_zip = TRUE, !.io_error = TRUE],
    File("g.zip", 3, TRUE, <<80, 75, 4>>,
         <<Member(<<2>>), ErrorMember(<<3>>), Member(<<1, 2>>)>>) }

Disks == {d \in SUBSET FilePool : Cardinality(d) <= MaxFiles}

\* The DATs of the indexing model declare the digests of [1, 2], [2], [3]
\* and, when packed, of the archive d.zip stored raw.
IdxDat(packed) ==
    << Game("Alpha (USA)", "", <<<<"usa">>>>, <<>>, <<>>,
            <<Rom("alpha.bin", Sha1(<<1, 2>>))>>),
       Game("Alpha (Europe)", "Alpha (USA)", <<<<"europe">>>>, <<>>, <<>>,
            <<Rom("alpha1.bin", Sha1(<<2>>)), Rom("alpha2.bin", Sha1(<<3>>))>>
            \o (IF packed THEN <<Rom("pack.zip", Sha1(<<80, 75, 2>>))>>
                ELSE <<>>)) >>

\* The header rule sets of the indexing model: none, or one that strips a
\* one-byte header 01.
IdxRules == {<<>>, <<Rule(1, 0, "none", <<DataTest(1, 0, 1, TRUE)>>)>>}

\* All orderings of a finite set.
RECURSIVE Orderings(_)
Orderings(S) ==
    IF S = {} THEN {<<>>}
    ELSE UNION {{<<x>> \o rest : rest \in Orderings(S \ {x})} : x \in S}

InitIdx ==
    /\ SelIdle /\ HashIdle /\ IdxIdle
    /\ dat \in {IdxDat(FALSE), IdxDat(TRUE)}
    /\ disk \in Disks
    /\ hash_index = EmptyDict
    /\ THREADS \in 1..MaxThreads
    /\ RULES \in IdxRules
    /\ MAX_FILE_SIZE = DEFAULT_MAX_FILE_SIZE
    /\ CHUNK_SIZE = DEFAULT_CHUNK_SIZE
    /\ pc = "index"

\* index_files up to the start of the threads (lines 316-386): the declared
\* digests mapped to None, the files found by rglob in any order, sorted by
\* size, largest first; without files the empty result is returned, else
\* the progress bar is made, its lock free after init (lines 348-354).
ScanDir ==
    /\ pc = "index"
    /\ \E order \in Orderings(disk) :
        /\ \A k \in 1..(Len(order) - 1) : order[k].size >= order[k + 1].size
        /\ files_data' = [k \in DOMAIN order |-> FileData(order[k].size, order[k].path)]
    /\ worklist' = files_data'
    /\ hash_index' = [d \in DeclaredDigests(dat) |-> None]
    /\ intermediate_results' = <<>>
    /\ IF disk = {}
       THEN pc' = "indexed" /\ UNCHANGED <<tpc, next_file, lock>>
       ELSE /\ pc' = "join"
            /\ lock' = FALSE
            /\ tpc' = [t \in 1..THREADS |-> "pop"]
            /\ next_file' = [t \in 1..THREADS |-> FileData(0, None)]
    /\ UNCHANGED <<selvars, disk, globals, hashvars>>

\* A worker takes the head of the worklist (line 365), or finds it empty
\* (IndexError, lines 373-375) and ends.  The lock of the progress bar is
\* taken and released within print_thread and print_bar, so it is free
\* before and after the step.
Pop(t) ==
    /\ pc = "join" /\ tpc[t] = "pop"
    /\ IF files_data # <<>>
       THEN /\ next_file' = [next_file EXCEPT ![t] = Head(files_data)]
            /\ files_data' = Tail(files_data)
            /\ tpc' = [tpc EXCEPT ![t] = "process"]
       ELSE /\ tpc' = [tpc EXCEPT ![t] = "done"]
            /\ UNCHANGED <<files_data, next_file>>
    /\ UNCHANGED <<pc, selvars, disk, hash_index, globals, hashvars, worklist,
                   intermediate_results, lock>>

\* A worker hashes its file and appends the partial result (lines 369-371).
\* An exception of process_file is no IndexError (line 373): it leaves the
\* loop and the thread ends with it.
Process(t) ==
    /\ pc = "join" /\ tpc[t] = "process"
    /\ IF process_file_raises(disk, next_file[t])
       THEN /\ tpc' = [tpc EXCEPT ![t] = "raised"]
            /\ UNCHANGED intermediate_results
       ELSE /\ intermediate_results' = Append(
                   intermediate_results,
                   process_file(disk, next_file[t], also_check_archive_of(dat),
                                RULES, MAX_FILE_SIZE, CHUNK_SIZE))
            /\ tpc' = [tpc EXCEPT ![t] = "pop"]
    /\ UNCHANGED <<pc, selvars, disk, hash_index, globals, hashvars,
                   files_data, worklist, next_file, lock>>

\* The threads joined, each ended by the break of line 375 or by an
\* exception, the partial results are merged (lines 388-398).
JoinAndMerge ==
    /\ pc = "join"
    /\ \A t \in DOMAIN tpc : tpc[t] \in {"done", "raised"}
    /\ hash_index' = MergeAll(disk, hash_index, intermediate_results)
    /\ pc' = "indexed"
    /\ UNCHANGED <<selvars, disk, globals, hashvars, idxvars>>

NextIdx ==
    \/ ScanDir
    \/ \E t \in 1..MaxThreads : t \in DOMAIN tpc /\ Pop(t)
    \/ \E t \in 1..MaxThreads : t \in DOMAIN tpc /\ Process(t)
    \/ JoinAndMerge

SpecIdx == InitIdx /\ [][NextIdx]_vars

\* The positions, in merge order, of the partial results reporting digest d.
Reporters(d) ==
    {k \in DOMAIN intermediate_results : d \in DOMAIN intermediate_results[k]}

First(S) == CHOOSE k \in S : \A j \in S : k <= j

\* The path the stated merge policy keeps for d: the first non-archive
\* reported, else the first archive reported, else None.
PolicyPath(d) ==
    LET bare == {k \in Reporters(d) :
                    ~is_zipfile(disk, intermediate_results[k][d])}
    IN  IF bare # {} THEN intermediate_results[First(bare)][d]
        ELSE IF Reporters(d) # {}
             THEN intermediate_results[First(Reporters(d))][d]
        ELSE None

\* C6: of the paths reported for one digest the merge keeps a non-archive
\* in preference to an archive, and the first seen between two of a kind.
C6_BarePreferredFirstSeen ==
    pc = "indexed" =>
        \A d \in DOMAIN hash_index : hash_index[d] = PolicyPath(d)

\* The files a single worker gets through: the worklist up to the first
\* file on which process_file raises.
RECURSIVE Processed(_)
Processed(list) ==
    IF list = <<>> \/ process_file_raises(disk, Head(list)) THEN <<>>
    ELSE <<Head(list)>> \o Processed(Tail(list))

\* The index of the run in which the files finish in worklist order (the
\* run of a single worker).
SequentialIndex ==
    MergeAll(disk, [d \in DeclaredDigests(dat) |-> None],
             [k \in DOMAIN Processed(worklist) |->
                 process_file(disk, worklist[k], also_check_archive_of(dat),
                              RULES, MAX_FILE_SIZE, CHUNK_SIZE)])

\* C7: for fixed files and a fixed worklist order the final index is the
\* same for every interleaving and worker count: it is the index of the
\* single-worker run.
C7_IndexIndependentOfInterleaving ==
    pc = "indexed" => hash_index = SequentialIndex

\* The digests of the contents of a file: its raw bytes and its readable
\* archive members, hashed under the loaded rules.
ContentDigests(f) ==
    {compute_hash(Len(f.raw), f.raw, RULES, MAX_FILE_SIZE, CHUNK_SIZE)}
    \cup {compute_hash(Len(f.members[m].data), f.members[m].data, RULES,
                       MAX_FILE_SIZE, CHUNK_SIZE) :
             m \in {n \in DOMAIN f.members :
                        /\ ~f.members[n].is_dir /\ ~f.members[n].bad
                        /\ ~f.members[n].error}}

----------------------------------------------------------------------------
(* main: the options, the filter and the walk of a group                   *)
(* (generate.py 529-564, 664, 840-967, 1024-1038)                          *)

\* The locals of main when no option is given (lines 529-564).  filters is
\* the set of the filter_* flags that are set; prefer, avoid, exclude and
\* exclude_after are the parsed pattern lists; languages is the --languages
\* argument in command line order.
DefaultOptions ==
    [dat_file |-> None, ignore_case |-> FALSE, regex |-> FALSE,
     filters |-> {}, all_regions |-> FALSE, all_regions_with_lang |-> FALSE,
     only_selected_lang |-> FALSE, revision_asc |-> FALSE,
     version_asc |-> FALSE, no_scan |-> FALSE, input_order |-> FALSE,
     selected_regions |-> <<>>, file_extension |-> "", input_dir |-> None,
     prefer |-> <<>>, exclude |-> <<>>, avoid |-> <<>>, exclude_after |-> <<>>,
     output_dir |-> None, languages |-> <<>>, prioritize_languages |-> FALSE,
     prefer_parents |-> FALSE, prefer_prereleases |-> FALSE,
     language_weight |-> 3, move |-> FALSE]

\* The locals after "-d roms.dat", roms.dat an existing file (lines 617-620).
DatOptions == [DefaultOptions EXCEPT !.dat_file = "roms.dat"]

\* Line 664
use_hashes(o) == ~o.no_scan /\ o.input_dir # None

\* Python's order on the strings that name games and files in the modelled
\* runs (code point order), as the ascending list of those strings.
STRING_ORDER == <<
    "Alpha (Europe)", "Alpha (Europe).zip", "Alpha (Europe)/alpha1.bin",
    "Alpha (Europe)/alpha2.bin", "Alpha (Japan)", "Alpha (Japan).zip",
    "Alpha (USA)", "Alpha (USA).zip", "Beta (Europe)", "Beta (Europe).zip",
    "Gamma (USA)", "a.bin", "d.zip", "e.zip", "f.zip", "g.zip",
    "sub/b.bin" >>

\* sorted(...) of a set of strings.
sorted(S) == SelectSeq(STRING_ORDER, LAMBDA x : x \in S)

\* list.sort() of a list of strings, duplicates kept.
sort_strings(ls) ==
    Flatten([k \in DOMAIN STRING_ORDER |->
                Copies(STRING_ORDER[k],
                       Cardinality({j \in DOMAIN ls : ls[j] = STRING_ORDER[k]}))])

\* Path.parent of a path relative to input_dir, for the modelled paths.
parent(path) ==
    CASE path = "sub/b.bin" -> "sub"
      [] path \in {"Alpha (Europe)/alpha1.bin", "Alpha (Europe)/alpha2.bin"}
            -> "Alpha (Europe)"
      [] OTHER -> "."

\* Path.__truediv__
Join(dir, name) == dir \o "/" \o name

is_file(files, path) == \E f \in files : f.path = path

is_dir(files, path) == \E f \in files : parent(f.path) = path

add_extension(file_name, file_extension) ==
    IF file_extension # "" THEN file_name \o "." \o file_extension
    ELSE file_name

\* transfer_file: the files under input_dir afterwards and the call with its
\* outcome.  shutil raises OSError, which is caught, when the source is gone;
\* a move takes the source away.
transfer_file(files, input_path, output_path, move) ==
    LET ok == is_file(files, input_path)
    IN  [files |-> IF ok /\ move THEN {f \in files : f.path # input_path}
                   ELSE files,
         call |-> [source |-> input_path, destination |-> output_path,
                   move |-> move, ok |-> ok]]

\* include_candidate with the region test left out.
include_candidate_any_region(x, o) ==
    IF o.only_selected_lang /\ x.score.languages >= 0 THEN FALSE
    ELSE TRUE

\* include_candidate (lines 842-849)
include_candidate(x, o) ==
    IF o.only_selected_lang /\ x.score.languages >= 0 THEN FALSE
    ELSE IF o.all_regions_with_lang /\ x.score.languages < 0 THEN TRUE
    ELSE IF o.all_regions THEN TRUE
    ELSE x.score.region # UNSELECTED

\* Lines 857-858
filter_entries(es, o) ==
    IF ~o.all_regions THEN SelectSeq(es, LAMBDA x : include_candidate(x, o))
    ELSE es

\* The effects of one candidate: [copied_files, printed, calls, log, files].
NoEffect(files) ==
    [copied_files |-> {}, printed |-> <<>>, calls |-> <<>>, log |-> <<>>,
     files |-> files]

\* Lines 871-904: the ROMs of entry from position r on.  Paths are relative
\* to input_dir, so file is rom_input_path itself.
RECURSIVE hash_roms(_, _, _, _, _)
hash_roms(entry, r, st, o, index) ==
    IF r > Len(entry.roms) THEN st
    ELSE
    LET entry_rom == entry.roms[r]
        num_roms == Len(entry.roms)
        rom_input_path == index[entry_rom.sha1]
        is_zip == is_zipfile(st.files, rom_input_path)
        file == rom_input_path
        rom_output_dir == IF ~is_zip /\ (num_roms > 1 \/ parent(file) # file)
                          THEN Join(o.output_dir, entry.name)
                          ELSE o.output_dir
        rom_output_path == IF is_zip
                           THEN Join(rom_output_dir,
                                     add_extension(entry.name, "zip"))
                           ELSE Join(rom_output_dir, entry_rom.name)
        t == transfer_file(st.files, rom_input_path, rom_output_path, o.move)
        after ==
            IF rom_input_path = None
            THEN [st EXCEPT !.log = Append(@, <<"ROM file not found",
                                                entry_rom.name, entry.name>>)]
            ELSE IF rom_input_path \in st.copied_files THEN st
            ELSE IF o.output_dir = None
            THEN [st EXCEPT !.printed = Append(@, file),
                            !.copied_files = @ \cup {rom_input_path}]
            ELSE [st EXCEPT !.calls = Append(@, t.call), !.files = t.files,
                            !.copied_files = @ \cup {rom_input_path}]
    IN  hash_roms(entry, r + 1, after, o, index)

\* Line 905 never true: the walk goes on after a candidate was found.
found_in_index_never(copied_files) == FALSE

\* Line 905: if copied_files
found_in_index(copied_files) == copied_files # {}

\* Lines 925-946: the ROMs of entry, from position r on, looked up by name
\* in the directory full_path.
RECURSIVE dir_roms(_, _, _, _, _)
dir_roms(entry, r, st, o, file_name) ==
    IF r > Len(entry.roms) THEN st
    ELSE
    LET entry_rom == entry.roms[r]
        full_path == file_name
        rom_input_path == Join(full_path, entry_rom.name)
        rom_output_dir == Join(o.output_dir, file_name)
        t == transfer_file(st.files, rom_input_path, rom_output_dir, o.move)
        after ==
            IF is_file(st.files, rom_input_path)
            THEN (IF o.output_dir # None
                  THEN [st EXCEPT !.calls = Append(@, t.call),
                                  !.files = t.files]
                  ELSE [st EXCEPT !.printed =
                            Append(@, Join(file_name, entry_rom.name))])
            ELSE [st EXCEPT !.log = Append(@, <<"ROM file not found",
                                                entry_rom.name, file_name>>)]
    IN  dir_roms(entry, r + 1, after, o, file_name)

\* Lines 665-693: the option combinations main accepts.
valid_options(o) ==
    /\ ~(o.file_extension # "" /\ use_hashes(o))
    /\ o.dat_file # None
    /\ o.selected_regions # <<>>
    /\ ~((o.revision_asc \/ o.version_asc) /\ o.input_order)
    /\ ~((o.revision_asc \/ o.version_asc) /\ o.prefer_parents)
    /\ ~(o.prefer_parents /\ o.input_order)
    /\ ~(o.output_dir # None /\ o.input_dir = None)
    /\ ~(o.ignore_case /\ o.prefer = <<>> /\ o.avoid = <<>> /\ o.exclude = <<>>)
    /\ ~(o.regex /\ o.prefer = <<>> /\ o.avoid = <<>> /\ o.exclude = <<>>)
    /\ ~(o.all_regions /\ o.all_regions_with_lang)

----------------------------------------------------------------------------
(* The steps of main after the options (generate.py 717-961)               *)

\* Lines 717-719: index_files is called when scanning.
StartIndex ==
    /\ pc = "main"
    /\ pc' = IF use_hashes(opts) /\ opts.input_dir # None THEN "index"
             ELSE "indexed"
    /\ UNCHANGED <<selvars, disk, hash_index, globals, idxvars, hashvars>>

\* Lines 723-735
ParseGames ==
    /\ pc = "indexed"
    /\ LET r == parse_games(dat, registry, log, opts)
       IN  /\ parsed_games' = r.games
           /\ registry' = r.reg
           /\ log' = r.log
    /\ pc' = "sort"
    /\ UNCHANGED <<opts, dat, game_pos, entries, i, printed_items, transfers,
                   selected, disk, hash_index, globals, idxvars, hashvars>>

\* Lines 801-834: every group padded, scored and sorted.
SortGroups ==
    /\ pc = "sort"
    /\ parsed_games' = [key \in DOMAIN parsed_games |->
                           ScoreAndSort(parsed_games[key], opts)]
    /\ pc' = "group"
    /\ UNCHANGED <<opts, dat, registry, game_pos, entries, i, printed_items,
                   transfers, log, selected, disk, hash_index, globals,
                   idxvars, hashvars>>

\* The parent name of the iteration game_pos of the loop of line 851.
game_key == sorted(DOMAIN parsed_games)[game_pos + 1]

\* Lines 851-863: the next group and its filtered list.
NextGroup ==
    /\ pc = "group"
    /\ game_pos < Len(sorted(DOMAIN parsed_games))
    /\ entries' = filter_entries(parsed_games[game_key], opts)
    /\ i' = 0
    /\ pc' = "walk"
    /\ UNCHANGED <<opts, dat, registry, parsed_games, game_pos, printed_items,
                   transfers, log, selected, disk, hash_index, globals,
                   idxvars, hashvars>>

\* The loop of line 864 left: by break, or with the range exhausted.
LeaveGroup ==
    /\ pc' = "group"
    /\ game_pos' = game_pos + 1
    /\ UNCHANGED <<entries, i>>

\* The effects st of the candidate entries[i] recorded; the walk of the
\* group stops when found, else goes on with "trying next one" logged (and
\* "no eligible candidates" at the last position).
Record(st, found, name) ==
    /\ printed_items' = printed_items \o st.printed
    /\ transfers' = transfers \o st.calls
    /\ disk' = st.files
    /\ IF found
       THEN /\ selected' = Append(selected,
                                  [game |-> game_key, i |-> i,
                                   entries |-> entries, files |-> disk,
                                   printed |-> st.printed, calls |-> st.calls])
            /\ log' = log \o st.log
            /\ LeaveGroup
       ELSE /\ selected' = selected
            /\ log' = log \o st.log
                      \o <<(<<"candidate not found, trying next one", name>>)>>
                      \o (IF i = Len(entries) - 1
                          THEN <<(<<"no eligible candidates", game_key>>)>>
                          ELSE <<>>)
            /\ i' = i + 1
            /\ UNCHANGED <<pc, game_pos, entries>>
    /\ UNCHANGED <<opts, dat, registry, parsed_games, hash_index, globals,
                   idxvars, hashvars>>

\* Line 864: range(0, size) exhausted.
EndGroup ==
    /\ pc = "walk" /\ i = Len(entries)
    /\ LeaveGroup
    /\ UNCHANGED <<opts, dat, registry, parsed_games, printed_items,
                   transfers, log, selected, disk, hash_index, globals,
                   idxvars, hashvars>>

\* Lines 866-867: the candidate matches an exclude-after pattern.
ExcludedAfter ==
    /\ pc = "walk" /\ i < Len(entries)
    /\ check_in_pattern_list(entries[i + 1].name, opts.exclude_after)
    /\ LeaveGroup
    /\ UNCHANGED <<opts, dat, registry, parsed_games, printed_items,
                   transfers, log, selected, disk, hash_index, globals,
                   idxvars, hashvars>>

\* Lines 868-914: the candidate looked up in the hash index.
HashCandidate ==
    /\ pc = "walk" /\ i < Len(entries)
    /\ ~check_in_pattern_list(entries[i + 1].name, opts.exclude_after)
    /\ use_hashes(opts)
    /\ LET entry == entries[i + 1]
           st == hash_roms(entry, 1, NoEffect(disk), opts, hash_index)
       IN  Record(st, found_in_index(st.copied_files), entry.name)

\* Lines 915-955: the candidate looked up by name under input_dir.
NameCandidate ==
    /\ pc = "walk" /\ i < Len(entries)
    /\ ~check_in_pattern_list(entries[i + 1].name, opts.exclude_after)
    /\ ~use_hashes(opts) /\ opts.input_dir # None
    /\ LET entry == entries[i + 1]
           file_name == add_extension(entry.name, opts.file_extension)
           full_path == file_name
           t == transfer_file(disk, full_path, opts.output_dir, opts.move)
       IN  IF is_file(disk, full_path)
           THEN Record(IF opts.output_dir # None
                       THEN [NoEffect(t.files) EXCEPT !.calls = <<t.call>>]
                       ELSE [NoEffect(disk) EXCEPT !.printed = <<file_name>>],
                       TRUE, file_name)
           ELSE IF is_dir(disk, full_path)
           THEN Record(dir_roms(entry, 1, NoEffect(disk), opts, file_name),
                       TRUE, file_name)
           ELSE Record(NoEffect(disk), FALSE, file_name)

\* Lines 956-958: without input_dir the name of the candidate is printed.
PrintCandidate ==
    /\ pc = "walk" /\ i < Len(entries)
    /\ ~check_in_pattern_list(entries[i + 1].name, opts.exclude_after)
    /\ ~use_hashes(opts) /\ opts.input_dir = None
    /\ Record([NoEffect(disk) EXCEPT !.printed =
                   <<add_extension(entries[i + 1].name, opts.file_extension)>>],
              TRUE, entries[i + 1].name)

\* Lines 959-961: the names sorted and printed.
Finish ==
    /\ pc = "group"
    /\ game_pos = Len(sorted(DOMAIN parsed_games))
    /\ printed_items' = sort_strings(printed_items)
    /\ pc' = "done"
    /\ UNCHANGED <<opts, dat, registry, parsed_games, game_pos, entries, i,
                   transfers, log, selected, disk, hash_index, globals,
                   idxvars, hashvars>>

----------------------------------------------------------------------------
(* Selection: the runs of main on a DAT of two parents                     *)

\* The largest number of files under input_dir in the selection model.
MaxSelFiles == 2

\* Alpha (USA) with clones from Europe (two ROMs) and Japan, and Beta
\* (Europe), whose ROM has the digest of the second ROM of Alpha (Europe).
SelDat ==
    IdxDat(FALSE) \o
    << Game("Alpha (Japan)", "Alpha (USA)", <<<<"japan">>>>, <<>>, <<>>,
            <<Rom("alphaj.bin", Sha1(<<4>>))>>),
       Game("Beta (Europe)", "", <<<<"europe">>>>, <<>>, <<>>,
            <<Rom("beta.bin", Sha1(<<3>>))>>) >>

\* Files named after the candidates, so that they resolve by digest and by
\* name: a bare file and an archive for Alpha (USA), a directory with the
\* two ROMs of Alpha (Europe), a bare file for Alpha (Japan).
SelFiles == {
    File("Alpha (USA)", 2, FALSE, <<1, 2>>, <<>>),
    File("Alpha (USA).zip", 3, TRUE, <<80, 75, 1>>, <<Member(<<1, 2>>)>>),
    File("Alpha (Europe)/alpha1.bin", 1, FALSE, <<2>>, <<>>),
    File("Alpha (Europe)/alpha2.bin", 1, FALSE, <<3>>, <<>>),
    File("Alpha (Japan)", 1, FALSE, <<4>>, <<>>) }

SelDisks == {d \in SUBSET SelFiles : Cardinality(d) <= MaxSelFiles}

\* How the candidates are looked up and what is done with them: scanning
\* (listing, copying, moving), by name (listing with and without an
\* extension, copying), and without an input directory.
SelModes == {
    [DatOptions EXCEPT !.input_dir = "in"],
    [DatOptions EXCEPT !.input_dir = "in", !.output_dir = "out"],
    [DatOptions EXCEPT !.input_dir = "in", !.output_dir = "out",
                           !.move = TRUE],
    [DatOptions EXCEPT !.input_dir = "in", !.no_scan = TRUE],
    [DatOptions EXCEPT !.input_dir = "in", !.no_scan = TRUE,
                           !.file_extension = "zip"],
    [DatOptions EXCEPT !.input_dir = "in", !.no_scan = TRUE,
                           !.output_dir = "out"],
    DatOptions }

SelOptions ==
    {o \in {[m EXCEPT !.all_regions = ar, !.all_regions_with_lang = arl,
                      !.only_selected_lang = osl, !.selected_regions = sr,
                      !.languages = ls, !.exclude_after = ea] :
               m \in SelModes, ar \in BOOLEAN, arl \in BOOLEAN,
               osl \in BOOLEAN,
               sr \in {<<"USA">>, <<"EUR", "USA">>},
               ls \in {<<>>, <<"ja">>, <<"en", "ja">>},
               ea \in {<<>>, <<{"Alpha (USA)"}>>}} :
        valid_options(o)}

InitSel ==
    /\ opts \in SelOptions
    /\ dat = SelDat
    /\ registry = COUNTRY_REGION_CORRELATION
    /\ parsed_games = None /\ game_pos = 0 /\ entries = <<>> /\ i = 0
    /\ printed_items = <<>> /\ transfers = <<>> /\ log = <<>>
    /\ selected = <<>>
    /\ disk \in IF opts.input_dir = None THEN {{}} ELSE SelDisks
    /\ hash_index = EmptyDict
    /\ THREADS = 1
    /\ RULES = <<>>
    /\ MAX_FILE_SIZE = DEFAULT_MAX_FILE_SIZE
    /\ CHUNK_SIZE = DEFAULT_CHUNK_SIZE
    /\ IdxIdle /\ HashIdle
    /\ pc = "main"

NextSel ==
    \/ StartIndex
    \/ ScanDir
    \/ \E t \in 1..MaxThreads : t \in DOMAIN tpc /\ Pop(t)
    \/ \E t \in 1..MaxThreads : t \in DOMAIN tpc /\ Process(t)
    \/ JoinAndMerge
    \/ ParseGames
    \/ SortGroups
    \/ NextGroup
    \/ EndGroup
    \/ ExcludedAfter
    \/ HashCandidate
    \/ NameCandidate
    \/ PrintCandidate
    \/ Finish

SpecSel == InitSel /\ [][NextSel]_vars

\* The candidate on which the walk recorded in s stopped.
Taken(s) == s.entries[s.i + 1]

\* Whether a candidate can be resolved with the files fs under input_dir:
\* the index holds a path for one of its ROMs; or its name is a file or a
\* directory of input_dir; without input_dir nothing is looked up.
C1_Resolvable(x, fs) ==
    IF use_hashes(opts)
    THEN \E r \in DOMAIN x.roms : hash_index[x.roms[r].sha1] # None
    ELSE IF opts.input_dir # None
    THEN \/ is_file(fs, add_extension(x.name, opts.file_extension))
         \/ is_dir(fs, add_extension(x.name, opts.file_extension))
    ELSE TRUE

C3_OnlySelectedLangDrops ==
    opts.only_selected_lang =>
        /\ pc = "walk" => \A k \in DOMAIN entries : entries[k].score.languages < 0
        /\ \A k \in DOMAIN selected : Taken(selected[k]).score.languages < 0

\* C4: unless all_regions is set, a candidate of an unselected region is
\* absent from the walked list, except that with all_regions_with_lang it is
\* there when its score.languages < 0; a candidate of a selected region is
\* absent only when only_selected_lang drops it.
C4_RegionFilter ==
    pc = "walk" =>
        \A k \in DOMAIN parsed_games[game_key] :
            LET x == parsed_games[game_key][k]
                walked == \E j \in DOMAIN entries : entries[j] = x
            IN  /\ (~opts.all_regions /\ x.score.region = UNSELECTED)
                       => (walked <=> (opts.all_regions_with_lang
                                       /\ x.score.languages < 0))
                /\ (x.score.region # UNSELECTED /\ ~walked)
                       => (opts.only_selected_lang /\ x.score.languages >= 0)

\* A group walked with all_regions_with_lang after one candidate of an
\* unselected region was dropped and another, with a selected language,
\* was kept.
C4_Witness ==
    /\ pc = "walk" /\ opts.all_regions_with_lang
    /\ \E k \in DOMAIN entries : /\ entries[k].score.region = UNSELECTED
                                 /\ entries[k].score.languages < 0
    /\ \E k \in DOMAIN parsed_games[game_key] :
        /\ parsed_games[game_key][k].score.region = UNSELECTED
        /\ \A j \in DOMAIN entries : entries[j] # parsed_games[game_key][k]

\* C5: when scanning, every ROM of a taken candidate has a path in the
\* index.
C5_AllRomsResolve ==
    use_hashes(opts) =>
        \A k \in DOMAIN selected :
            \A r \in DOMAIN Taken(selected[k]).roms :
                hash_index[Taken(selected[k]).roms[r].sha1] # None

----------------------------------------------------------------------------
(* Ordering: the groups of a DAT parsed, padded, scored and sorted          *)

\* One family: a parent, two revisions (2 and 10), a version 1.10, a
\* two-language European title with version 1.2, a beta and a bad dump.
SortGames == <<
    Game("Gamma (USA)", "", <<<<"usa">>>>, <<>>, <<>>,
         <<Rom("gamma.bin", Sha1(<<1>>))>>),
    [Game("Gamma (USA) (Rev 2)", "Gamma (USA)", <<<<"usa">>>>, <<>>, <<>>,
          <<Rom("gamma2.bin", Sha1(<<2>>))>>)
        EXCEPT !.rev = Match(<<50>>)],
    [Game("Gamma (USA) (Rev 10)", "Gamma (USA)", <<<<"usa">>>>, <<>>, <<>>,
          <<Rom("gamma10.bin", Sha1(<<3>>))>>)
        EXCEPT !.rev = Match(<<49, 48>>)],
    [Game("Gamma (USA) (v1.10)", "Gamma (USA)", <<<<"usa">>>>, <<>>, <<>>,
          <<Rom("gammav.bin", Sha1(<<4>>))>>)
        EXCEPT !.ver = Match(<<49, 46, 49, 48>>)],
    [Game("Gamma (Europe) (En,Fr) (v1.2)", "Gamma (USA)", <<<<"europe">>>>,
          <<>>, <<"en", "fr">>, <<Rom("gammae.bin", Sha1(<<5>>))>>)
        EXCEPT !.ver = Match(<<49, 46, 50>>)],
    [Game("Gamma (Europe) (Beta 1)", "Gamma (USA)", <<<<"europe">>>>, <<>>,
          <<>>, <<Rom("gammab.bin", Sha1(<<6>>))>>)
        EXCEPT !.beta = Match(<<49>>)],
    [Game("Gamma (Japan) [b]", "Gamma (USA)", <<<<"japan">>>>, <<>>, <<>>,
          <<Rom("gammaj.bin", Sha1(<<7>>))>>)
        EXCEPT !.is_bad = TRUE] >>

\* A family with release records: codes that repeat the region of the
\* title in upper and in lower case, a code of another region, a code the
\* registry does not know, an entry without any region, and an entry whose
\* only region is one the registry does not know (it has no language).
ReleaseGames == <<
    Game("Delta (USA)", "", <<<<"usa">>>>, <<"USA", "EUR">>, <<>>,
         <<Rom("delta.bin", Sha1(<<1>>))>>),
    Game("Delta (Europe)", "Delta (USA)", <<<<"europe">>>>, <<"eur">>, <<>>,
         <<Rom("deltae.bin", Sha1(<<2>>))>>),
    Game("Delta (Brazil)", "Delta (USA)", <<<<"brazil">>>>, <<"", "XYZ">>,
         <<>>, <<Rom("deltab.bin", Sha1(<<3>>))>>),
    Game("Delta (Unknown)", "Delta (USA)", <<<<"unknown">>>>, <<>>, <<>>,
         <<Rom("deltau.bin", Sha1(<<4>>))>>),
    Game("Delta (Unknown) (Alt)", "Delta (USA)", <<<<"unknown">>>>,
         <<"XYZ">>, <<>>, <<Rom("deltax.bin", Sha1(<<5>>))>>) >>

\* Clones of one parent that differ in their revision (1, 1.1, 2, 10) or in
\* their version (1, 1.2, 1.10) only.
RevisionGames ==
    [k \in 1..4 |->
        [Game(<<"Gamma (USA) (Rev 1)", "Gamma (USA) (Rev 1.1)",
                "Gamma (USA) (Rev 2)", "Gamma (USA) (Rev 10)">>[k],
              "Gamma (USA)", <<<<"usa">>>>, <<>>, <<>>,
              <<Rom("gamma.bin", Sha1(<<k>>))>>)
            EXCEPT !.rev = Match(<< <<49>>, <<49, 46, 49>>, <<50>>,
                                    <<49, 48>> >>[k])]]
    \o
    [k \in 1..3 |->
        [Game(<<"Gamma (USA) (v1)", "Gamma (USA) (v1.2)",
                "Gamma (USA) (v1.10)">>[k],
              "Gamma (USA)", <<<<"usa">>>>, <<>>, <<>>,
              <<Rom("gamma.bin", Sha1(<<4 + k>>))>>)
            EXCEPT !.ver = Match(<< <<49>>, <<49, 46, 50>>,
                                    <<49, 46, 49, 48>> >>[k])]]

\* The first family in document order and in the opposite order, the
\* family with release records and the family of revisions.
SortDats == {SortGames, Reversed(SortGames), ReleaseGames, RevisionGames}

SortOptions ==
    {o \in {[DatOptions EXCEPT
                !.prioritize_languages = f[1], !.prefer_prereleases = f[2],
                !.prefer_parents = f[3], !.input_order = f[4],
                !.revision_asc = f[5], !.version_asc = f[6],
                !.selected_regions = sr, !.languages = ls,
                !.language_weight = lw,
                !.prefer = pf, !.avoid = av] :
               f \in [1..6 -> BOOLEAN],
               sr \in {<<"USA">>, <<"JPN", "EUR">>},
               ls \in {<<>>, <<"fr", "ja">>, <<"en", "ja">>, <<"ja", "en">>},
               lw \in {1, 3},
               pf \in {<<>>, <<{"Gamma (Europe) (En,Fr) (v1.2)"}>>},
               av \in {<<>>, <<{"Gamma (USA)", "Gamma (USA) (Rev 10)"}>>}} :
        valid_options(o)}

InitSort ==
    /\ opts \in SortOptions
    /\ dat \in SortDats
    /\ registry = COUNTRY_REGION_CORRELATION
    /\ parsed_games = None /\ game_pos = 0 /\ entries = <<>> /\ i = 0
    /\ printed_items = <<>> /\ transfers = <<>> /\ log = <<>>
    /\ selected = <<>>
    /\ disk = {}
    /\ hash_index = EmptyDict
    /\ THREADS = DEFAULT_THREADS
    /\ RULES = <<>>
    /\ MAX_FILE_SIZE = DEFAULT_MAX_FILE_SIZE
    /\ CHUNK_SIZE = DEFAULT_CHUNK_SIZE
    /\ IdxIdle /\ HashIdle
    /\ pc = "indexed"

NextSort == ParseGames \/ SortGroups

SpecSort == InitSort /\ [][NextSort]_vars

\* Component k of the stated key of candidate g, as a list of integers
\* (FALSE is 0, TRUE is 1, a number is a list of one).
C2_Component(g, k) ==
    LET bit(b) == IF b THEN <<1>> ELSE <<0>>
        named(patterns) == \E p \in DOMAIN patterns : g.name \in patterns[p]
    IN  CASE k = 1 -> bit(g.is_bad)
          [] k = 2 -> bit(opts.prefer_prereleases # g.is_prerelease)
          [] k = 3 -> bit(named(opts.avoid))
          [] k = 4 -> IF opts.prioritize_languages THEN <<g.score.languages>>
                      ELSE <<g.score.region>>
          [] k = 5 -> IF opts.prioritize_languages THEN <<g.score.region>>
                      ELSE <<g.score.languages>>
          [] k = 6 -> bit(opts.prefer_parents /\ ~g.is_parent)
          [] k = 7 -> IF opts.input_order THEN <<g.input_index>> ELSE <<0>>
          [] k = 8 -> bit(~named(opts.prefer))
          [] k = 9 -> g.score.revision
          [] k = 10 -> g.score.version
          [] k = 11 -> g.score.sample
          [] k = 12 -> g.score.demo
          [] k = 13 -> g.score.beta
          [] k = 14 -> g.score.proto
          [] k = 15 -> <<0 - Len(g.languages)>>
          [] k = 16 -> bit(~g.is_parent)

\* Lexicographic order on lists of integers.
C2_Smaller(a, b) ==
    \E p \in 1..Len(b) :
        /\ \A j \in 1..(p - 1) : j <= Len(a) /\ a[j] = b[j]
        /\ p > Len(a) \/ a[p] < b[p]

\* The key of g is smaller than the key of h at the first component in
\* which they differ.
C2_KeySmaller(g, h) ==
    \E k \in 1..16 :
        /\ \A j \in 1..(k - 1) : C2_Component(g, j) = C2_Component(h, j)
        /\ C2_Smaller(C2_Component(g, k), C2_Component(h, k))

\* C2: after sorting, no candidate of a group comes after one with a
\* greater 16-component key, so an earlier component dominates all later
\* ones: in particular no bad dump precedes a good one.
C2_SortedByKey ==
    pc = "group" =>
        \A key \in DOMAIN parsed_games :
            \A p, q \in DOMAIN parsed_games[key] :
                p < q => /\ ~C2_KeySmaller(parsed_games[key][q],
                                           parsed_games[key][p])
                         /\ ~(parsed_games[key][p].is_bad
                              /\ ~parsed_games[key][q].is_bad)

\* A sorted group in which a bad dump of the first selected region comes
\* after a good dump of an unselected region whose name is to be avoided.
C2_Witness ==
    /\ pc = "group"
    /\ \E key \in DOMAIN parsed_games :
        \E p, q \in DOMAIN parsed_games[key] :
            /\ p < q
            /\ parsed_games[key][q].is_bad
            /\ parsed_games[key][q].score.region = 0
            /\ parsed_games[key][p].score.region = UNSELECTED
            /\ check_in_pattern_list(parsed_games[key][p].name, opts.avoid)
            /\ parsed_games[key][p].input_index
                   > parsed_games[key][q].input_index

\* The region codes stated for a DAT entry: those of the registry entries
\* matching an element of its title sections, and those of its release
\* records, in upper case.
C12_Regions(game) ==
    {COUNTRY_REGION_CORRELATION[k].code :
        k \in {j \in DOMAIN COUNTRY_REGION_CORRELATION :
                  \E s \in DOMAIN game.sections :
                      \E e \in DOMAIN game.sections[s] :
                          game.sections[s][e]
                              \in COUNTRY_REGION_CORRELATION[j].pattern}}
    \cup {Upper(game.release[k]) :
             k \in {j \in DOMAIN game.release : game.release[j] # ""}}

\* The positions, in the group of its parent, of the candidates of the DAT
\* entry at position n that have region r.
C12_Candidates(n, r) ==
    LET key == IF dat[n].cloneof # "" THEN dat[n].cloneof ELSE dat[n].name
    IN  IF key \in DOMAIN parsed_games
        THEN {k \in DOMAIN parsed_games[key] :
                 /\ parsed_games[key][k].input_index = n - 1
                 /\ parsed_games[key][k].region = r}
        ELSE {}

\* C12: after parsing, a DAT entry that is not filtered out has exactly one
\* candidate for each of its regions, from the title or from a release
\* record in any letter case, and no other candidate; an entry without a
\* region has none.
C12_OnePerEntryRegion ==
    pc \in {"sort", "group"} =>
        \A n \in DOMAIN dat :
            ~Filtered(dat[n], opts) =>
                /\ \A r \in C12_Regions(dat[n]) :
                       Cardinality(C12_Candidates(n, r)) = 1
                /\ \A key \in DOMAIN parsed_games :
                       \A k \in DOMAIN parsed_games[key] :
                           parsed_games[key][k].input_index = n - 1
                               => parsed_games[key][k].region
                                      \in C12_Regions(dat[n])

\* The number written by a string of decimal digits.
RECURSIVE C13_Number(_)
C13_Number(digits) ==
    IF digits = <<>> THEN 0
    ELSE C13_Number(SubSeq(digits, 1, Len(digits) - 1)) * 10
         + (digits[Len(digits)] - 48)

\* The numbers of the dot-separated components of a dotted numeric string.
C13_Numbers(string) ==
    [k \in DOMAIN SplitDots(string, <<>>) |->
        C13_Number(SplitDots(string, <<>>)[k])]

C13_IsNumeric(string) ==
    \A k \in DOMAIN string : string[k] = 46 \/ string[k] \in 48..57

\* Component-wise numeric order, a missing component counting as lower.
C13_Lower(a, b) ==
    \E p \in 1..Len(b) :
        /\ \A j \in 1..(p - 1) : j <= Len(a) /\ a[j] = b[j]
        /\ p > Len(a) \/ a[p] < b[p]

\* Whether candidates g and h agree on every component of the stated key
\* but component k.
C13_DifferOnlyIn(g, h, k) ==
    \A j \in (1..16) \ {k} : C2_Component(g, j) = C2_Component(h, j)

\* C13: of two candidates of a sorted group that differ only in their
\* dotted numeric revision, the one before the other has the numerically
\* lower revision with early_revisions and the higher one without; the
\* same for versions with early_versions.
C13_NumericOrder ==
    pc = "group" =>
        \A key \in DOMAIN parsed_games :
            \A p, q \in DOMAIN parsed_games[key] :
                LET g == parsed_games[key][p]
                    h == parsed_games[key][q]
                IN  /\ (/\ p < q /\ C13_DifferOnlyIn(g, h, 9)
                        /\ C13_IsNumeric(g.revision) /\ C13_IsNumeric(h.revision)
                        /\ C13_Numbers(g.revision) # C13_Numbers(h.revision))
                           => IF opts.revision_asc
                              THEN C13_Lower(C13_Numbers(g.revision),
                                             C13_Numbers(h.revision))
                              ELSE C13_Lower(C13_Numbers(h.revision),
                                             C13_Numbers(g.revision))
                    /\ (/\ p < q /\ C13_DifferOnlyIn(g, h, 10)
                        /\ C13_IsNumeric(g.version) /\ C13_IsNumeric(h.version)
                        /\ C13_Numbers(g.version) # C13_Numbers(h.version))
                           => IF opts.version_asc
                              THEN C13_Lower(C13_Numbers(g.version),
                                             C13_Numbers(h.version))
                              ELSE C13_Lower(C13_Numbers(h.version),
                                             C13_Numbers(g.version))

\* The filtered, ordered list of the group of parent key.
C14_List(key) == filter_entries(parsed_games[key], opts)

\* Whether the name of candidate x matches an exclude-after pattern.
C14_Excluded(x) ==
    \E p \in DOMAIN opts.exclude_after : x.name \in opts.exclude_after[p]

\* C14: a group whose leading candidate matches an exclude-after pattern is
\* skipped: no candidate of it is taken, so none is listed or transferred.
C14_LeadingExcludedSkipsGroup ==
    pc \in {"group", "walk", "done"} =>
        \A key \in DOMAIN parsed_games :
            (C14_List(key) # <<>> /\ C14_Excluded(C14_List(key)[1]))
                => \A k \in DOMAIN selected : selected[k].game # key

\* A run ended in which a group was skipped for its leading candidate
\* although its second candidate could be resolved, and another group had
\* a candidate taken.
C14_Witness ==
    /\ pc = "done" /\ selected # <<>>
    /\ \E key \in DOMAIN parsed_games :
        /\ Len(C14_List(key)) > 1
        /\ C14_Excluded(C14_List(key)[1])
        /\ C1_Resolvable(C14_List(key)[2], disk)


----------------------------------------------------------------------------
(* The checks of main on its arguments, and validate_dat                   *)
(* (generate.py 644-715, 165-198, 1045-1248)                               *)

\* help_msg(s): the message followed by the usage text.
help_msg(s) == <<s, "Usage: python3 generate.py [options] -d input_file.dat">>

\* Lines 665-697 in the order of the code: the message of the first check
\* that fails, None when all pass.
config_error(o, threads, max_file_size) ==
    IF o.file_extension # "" /\ use_hashes(o)
    THEN "extensions cannot be used when scanning"
    ELSE IF o.dat_file = None THEN "DAT file is required"
    ELSE IF o.selected_regions = <<>> THEN "invalid region selection"
    ELSE IF (o.revision_asc \/ o.version_asc) /\ o.input_order
    THEN "early-revisions and early-versions are mutually exclusive with input-order"
    ELSE IF (o.revision_asc \/ o.version_asc) /\ o.prefer_parents
    THEN "early-revisions and early-versions are mutually exclusive with prefer-parents"
    ELSE IF o.prefer_parents /\ o.input_order
    THEN "prefer-parents is mutually exclusive with input-order"
    ELSE IF o.output_dir # None /\ o.input_dir = None
    THEN "output-dir requires an input-dir"
    ELSE IF o.ignore_case /\ o.prefer = <<>> /\ o.avoid = <<>> /\ o.exclude = <<>>
    THEN "ignore-case only works if there's a prefer, avoid or exclude list too"
    ELSE IF o.regex /\ o.prefer = <<>> /\ o.avoid = <<>> /\ o.exclude = <<>>
    THEN "regex only works if there's a prefer, avoid or exclude list too"
    ELSE IF o.all_regions /\ o.all_regions_with_lang
    THEN "all-regions is mutually exclusive with all-regions-with-lang"
    ELSE IF threads <= 0 THEN "Number of threads should be > 0"
    ELSE IF max_file_size <= 0 THEN "Maximum file size should be > 0"
    ELSE None

\* The two messages main and validate_dat print before they read an answer.
NO_INPUT_DIR == "No input directory was provided. File scanning is disabled!"
STANDARD_DAT == "This DAT *seems* to be a Standard DAT"

\* Lines 656-697: without an input directory and without --no-scan the user
\* is asked whether to continue, and any answer but y ends the run (sys.exit
\* without a message); then the checks, the first failing one ending the run
\* with its message and the usage text.
ValidateArgs ==
    /\ pc = "args"
    /\ \E answer \in {"y", "n"} :
        LET asked == ~opts.no_scan /\ opts.input_dir = None
            asked_log == IF asked THEN Append(log, <<NO_INPUT_DIR>>) ELSE log
            error == config_error(opts, THREADS, MAX_FILE_SIZE)
        IN  IF asked /\ answer # "y"
            THEN pc' = "exit" /\ log' = asked_log
            ELSE IF error # None
            THEN pc' = "exit" /\ log' = Append(asked_log, help_msg(error))
            ELSE pc' = "validate_dat" /\ log' = asked_log
    /\ UNCHANGED <<opts, dat, registry, parsed_games, game_pos, entries, i,
                   printed_items, transfers, selected, disk, hash_index,
                   globals, idxvars, hashvars>>

\* validate_dat, lines 167-179: some game names a parent; some ROM has no
\* digest, and the last game with such a ROM.
has_cloneof(games) == \E g \in DOMAIN games : games[g].cloneof # ""

rom_lacks_sha1(game) == \E r \in DOMAIN game.rom : "sha1" \notin DOMAIN game.rom[r]

lacks_sha1(games) == \E g \in DOMAIN games : rom_lacks_sha1(games[g])

offending_entry(games) ==
    LET last == CHOOSE g \in DOMAIN games :
                    /\ rom_lacks_sha1(games[g])
                    /\ \A h \in DOMAIN games : rom_lacks_sha1(games[h]) => h <= g
    IN  games[last].name

\* Line 715, validate_dat (lines 165-198): a DAT without digests ends a
\* scanning run; for a DAT without parents the user is asked whether to
\* continue.
ValidateDat ==
    /\ pc = "validate_dat"
    /\ \E answer \in {"y", "n"} :
        IF use_hashes(opts) /\ lacks_sha1(dat)
        THEN /\ pc' = "exit"
             /\ log' = Append(log, <<"ERROR: Cannot use hash information because DAT lacks SHA1 digests", offending_entry(dat)>>)
        ELSE IF ~has_cloneof(dat)
        THEN /\ pc' = (IF answer = "y" THEN "main" ELSE "exit")
             /\ log' = Append(log, <<STANDARD_DAT>>)
        ELSE pc' = "main" /\ log' = log
    /\ UNCHANGED <<opts, dat, registry, parsed_games, game_pos, entries, i,
                   printed_items, transfers, selected, disk, hash_index,
                   globals, idxvars, hashvars>>

----------------------------------------------------------------------------
(* Runs of main from its arguments on                                      *)

\* A DAT without parents, and a DAT one of whose ROMs has no digest.
StandardDat ==
    << Game("Alpha (USA)", "", <<<<"usa">>>>, <<>>, <<>>,
            <<Rom("alpha.bin", Sha1(<<1, 2>>))>>) >>

NoDigestDat ==
    SelDat \o
    << Game("Beta (Japan)", "Beta (Europe)", <<<<"japan">>>>, <<>>, <<>>,
            <<[name |-> "betaj.bin"]>>) >>

ArgDats == {SelDat, StandardDat, NoDigestDat}

\* The input directories of these runs.
ArgDisks == {
    {},
    {File("Alpha (USA)", 2, FALSE, <<1, 2>>, <<>>)},
    {File("Alpha (USA).zip", 3, TRUE, <<80, 75, 1>>, <<Member(<<1, 2>>)>>),
     File("Alpha (Japan)", 1, FALSE, <<4>>, <<>>)} }

\* The ways of looking candidates up, and the run with an output directory
\* and no input directory.
ArgModes == SelModes \cup {[DatOptions EXCEPT !.output_dir = "out"]}

\* Option sets that pass the checks of main and option sets that do not.
ArgOptions ==
    UNION {{ [m EXCEPT !.selected_regions = <<"EUR", "USA">>],
             [m EXCEPT !.selected_regions = <<"EUR", "USA">>,
                       !.exclude_after = <<{"Alpha (USA)"}>>],
             [m EXCEPT !.selected_regions = <<>>],
             [m EXCEPT !.selected_regions = <<"USA">>, !.dat_file = None],
             [m EXCEPT !.selected_regions = <<"USA">>, !.revision_asc = TRUE],
             [m EXCEPT !.selected_regions = <<"USA">>, !.revision_asc = TRUE,
                       !.input_order = TRUE],
             [m EXCEPT !.selected_regions = <<"USA">>, !.version_asc = TRUE,
                       !.input_order = TRUE],
             [m EXCEPT !.selected_regions = <<"USA">>, !.revision_asc = TRUE,
                       !.prefer_parents = TRUE],
             [m EXCEPT !.selected_regions = <<"USA">>, !.version_asc = TRUE,
                       !.prefer_parents = TRUE],
             [m EXCEPT !.selected_regions = <<"USA">>, !.prefer_parents = TRUE,
                       !.input_order = TRUE],
             [m EXCEPT !.selected_regions = <<"USA">>, !.all_regions = TRUE,
                       !.all_regions_with_lang = TRUE],
             [m EXCEPT !.selected_regions = <<"USA">>, !.ignore_case = TRUE],
             [m EXCEPT !.selected_regions = <<"USA">>, !.regex = TRUE,
                       !.exclude_after = <<{"Alpha (USA)"}>>] } : m \in ArgModes}

\* --threads, --chunk-size and --max-file-size take any integer (lines
\* 644-654): the values given here, or the defaults.
ArgThreads == 0..MaxThreads
ArgChunkSizes == {-1, 0, 1, DEFAULT_CHUNK_SIZE}
ArgMaxFileSizes == {-1, 0, DEFAULT_MAX_FILE_SIZE}

InitArgs ==
    /\ opts \in ArgOptions
    /\ dat \in ArgDats
    /\ registry = COUNTRY_REGION_CORRELATION
    /\ parsed_games = None /\ game_pos = 0 /\ entries = <<>> /\ i = 0
    /\ printed_items = <<>> /\ transfers = <<>> /\ log = <<>>
    /\ selected = <<>>
    /\ disk \in IF opts.input_dir = None THEN {{}} ELSE ArgDisks
    /\ hash_index = EmptyDict
    /\ THREADS \in ArgThreads
    /\ RULES = <<>>
    /\ MAX_FILE_SIZE \in ArgMaxFileSizes
    /\ CHUNK_SIZE \in ArgChunkSizes
    /\ IdxIdle /\ HashIdle
    /\ pc = "args"

NextArgs ==
    \/ ValidateArgs
    \/ ValidateDat
    \/ StartIndex
    \/ ScanDir
    \/ \E t \in 1..MaxThreads : t \in DOMAIN tpc /\ Pop(t)
    \/ \E t \in 1..MaxThreads : t \in DOMAIN tpc /\ Process(t)
    \/ JoinAndMerge
    \/ ParseGames
    \/ SortGroups
    \/ NextGroup
    \/ EndGroup
    \/ ExcludedAfter
    \/ HashCandidate
    \/ NameCandidate
    \/ PrintCandidate
    \/ Finish

SpecArgs == InitArgs /\ [][NextArgs]_vars

\* The argument combinations the claim C15 lists.
C15_Invalid ==
    \/ (opts.revision_asc \/ opts.version_asc) /\ opts.input_order
    \/ (opts.revision_asc \/ opts.version_asc) /\ opts.prefer_parents
    \/ opts.prefer_parents /\ opts.input_order
    \/ opts.all_regions /\ opts.all_regions_with_lang
    \/ opts.output_dir # None /\ opts.input_dir = None
    \/ opts.file_extension # "" /\ use_hashes(opts)
    \/ opts.dat_file = None
    \/ opts.selected_regions = <<>>
    \/ THREADS <= 0

\* The last line of the log is an error followed by the usage text.
C15_UsageError ==
    /\ log # <<>>
    /\ Len(log[Len(log)]) = 2
    /\ log[Len(log)][2] = help_msg("")[2]

\* C15: a run given an invalid argument combination ends, with an error and
\* the usage text, before the DAT is validated or parsed and before any file
\* is hashed or transferred: once past the start it is at its exit, the
\* error and the usage text printed, nothing hashed, nothing parsed, nothing
\* transferred, the input directory as it was.
C15_InvalidArgumentsRejected ==
    (C15_Invalid /\ pc # "args") =>
        /\ pc = "exit"
        /\ C15_UsageError
        /\ \A k \in DOMAIN log : log[k] # <<STANDARD_DAT>>
        /\ intermediate_results = <<>>
        /\ hash_index = EmptyDict
        /\ parsed_games = None
        /\ transfers = <<>>

\* C16: a run given threads, chunk_size or max_file_size <= 0 is rejected,
\* it does not get past the checks of its arguments, and no file is hashed
\* in it.
C16_PositiveParameters ==
    (THREADS <= 0 \/ CHUNK_SIZE <= 0 \/ MAX_FILE_SIZE <= 0) =>
        /\ pc \in {"args", "exit"}
        /\ intermediate_results = <<>>


\* The transfers of the scanning runs with an output directory: the calls
\* of transfer_file recorded for the k-th taken candidate.
C17_Flat(path) == parent(path) = "."

\* C17: in a scanning run with an output directory, a resolved archive goes
\* to output_dir/candidate.name.zip, and a resolved file that is no archive,
\* of a candidate with exactly one ROM, with no directory in its path under
\* input_dir, goes directly into output_dir.
C17_OutputPlacement ==
    (use_hashes(opts) /\ opts.output_dir # None) =>
        \A k \in DOMAIN selected :
            \A c \in DOMAIN selected[k].calls :
                LET s == selected[k]
                    call == s.calls[c]
                    x == Taken(s)
                IN  IF is_zipfile(s.files, call.source)
                    THEN call.destination
                            = Join(opts.output_dir, x.name \o ".zip")
                    ELSE (Len(x.roms) = 1 /\ C17_Flat(call.source))
                            => call.destination
                                  = Join(opts.output_dir, x.roms[1].name)


\* A file that is read without a failure: it opens, raw and as an archive,
\* and every member of it can be read.
C18_Readable(f) ==
    /\ ~f.bad_zip /\ ~f.io_error
    /\ \A n \in DOMAIN f.members : ~f.members[n].bad /\ ~f.members[n].error

\* The partial result of the k-th file of the worklist.
C18_Result(k) ==
    process_file(disk, worklist[k], also_check_archive_of(dat), RULES,
                 MAX_FILE_SIZE, CHUNK_SIZE)

\* C18: a failure on one file skips that file only: when indexing has ended,
\* every file of the worklist that is read without a failure has been
\* processed, its partial result is among the results, and each declared
\* digest found in it is in the index, whatever the number of workers.
C18_FailureSkipsOneFile ==
    pc = "indexed" =>
        \A k \in DOMAIN worklist :
            C18_Readable(FileAt(disk, worklist[k].path)) =>
                /\ \E j \in DOMAIN intermediate_results :
                       intermediate_results[j] = C18_Result(k)
                /\ \A d \in DOMAIN C18_Result(k) \cap DOMAIN hash_index :
                       hash_index[d] # None


\* The digest of the n-th member of the archive f under the loaded rules.
C19_MemberDigest(f, n) ==
    compute_hash(Len(f.members[n].data), f.members[n].data, RULES,
                 MAX_FILE_SIZE, CHUNK_SIZE)

\* The archive f was taken and processed by a worker that no other file had
\* ended before.
C19_Reached(f) == \A g \in disk \ {f} : ~process_file_raises(disk, g)

\* C19: an error on one member of an archive that opened does not abort the
\* archive: when indexing has ended, the digest of every member of it that
\* can be read, before or after the failing one, is recorded with the path
\* of the archive in a partial result.
C19_MemberErrorKeepsArchive ==
    pc = "indexed" =>
        \A f \in disk :
            (f.is_zip /\ ~f.bad_zip /\ C19_Reached(f)) =>
                \A n \in DOMAIN f.members :
                    (~f.members[n].is_dir /\ ~f.members[n].bad
                     /\ ~f.members[n].error) =>
                        \E j \in DOMAIN intermediate_results :
                            /\ C19_MemberDigest(f, n)
                                   \in DOMAIN intermediate_results[j]
                            /\ intermediate_results[j][C19_MemberDigest(f, n)]
                                   = f.path


----------------------------------------------------------------------------
(* The indexer under a fair scheduler                                      *)

\* Every started thread is scheduled again and again and main is not held
\* back once join can return: each step that stays possible is taken.
FairSpecIdx ==
    /\ InitIdx /\ [][NextIdx]_vars
    /\ WF_vars(ScanDir)
    /\ \A t \in 1..MaxThreads : WF_vars(t \in DOMAIN tpc /\ Pop(t))
    /\ \A t \in 1..MaxThreads : WF_vars(t \in DOMAIN tpc /\ Process(t))
    /\ WF_vars(JoinAndMerge)

\* The workers that hold a file.
C20_Busy == {t \in DOMAIN tpc : tpc[t] = "process"}

\* No file is held by two workers, and no file a worker holds is still in
\* the list; at the merge the list is empty, every worker has ended on the
\* empty list and there is one partial result per file of the worklist.
C20_Safe ==
    /\ pc = "join" =>
        /\ \A t \in C20_Busy, u \in C20_Busy :
               t # u => next_file[t] # next_file[u]
        /\ \A t \in C20_Busy, k \in DOMAIN files_data :
               files_data[k] # next_file[t]
        /\ Len(files_data) + Cardinality(C20_Busy) + Len(intermediate_results)
               <= Len(worklist)
    /\ (pc = "indexed" /\ worklist # <<>>) =>
        /\ files_data = <<>>
        /\ \A t \in DOMAIN tpc : tpc[t] = "done"
        /\ Len(intermediate_results) = Len(worklist)

\* C20: for every worker count and interleaving every file of the worklist
\* is taken by exactly one worker, every worker eventually finds the list
\* empty and ends, and the merge comes after all workers have ended, with
\* exactly one partial result per file.
C20_EveryFileTakenOnce ==
    /\ []C20_Safe
    /\ [](pc = "join" => <>(\A t \in DOMAIN tpc : tpc[t] = "done"))


----------------------------------------------------------------------------
(* The indexer with the writes of the workers to the terminal              *)
(* (generate.py 357-375, 415-456; classes.py 230-259)                      *)

\* The positions of a worker at which it is writing to the terminal: inside
\* print_thread (with a file or with DONE), inside print_bar, and inside the
\* print calls of the except clauses of process_file.
LOCKED_WRITES == {"print_thread", "print_done", "print_bar"}
ERROR_WRITES == {"print_zip_error", "print_io_error"}

\* Lines 421-440: the archive branch of process_file ends in the handler of
\* BadZipFile: the archive does not open, or the first member that cannot
\* be read raises BadZipFile.
RECURSIVE MembersBad(_)
MembersBad(infos) ==
    IF infos = <<>> THEN FALSE
    ELSE IF Head(infos).is_dir THEN MembersBad(Tail(infos))
    ELSE IF Head(infos).error THEN FALSE
    ELSE Head(infos).bad \/ MembersBad(Tail(infos))

catches_BadZipFile(files, file_data) ==
    LET f == FileAt(files, file_data.path)
    IN  f.is_zip /\ (f.bad_zip \/ MembersBad(f.members))

\* Lines 441-455: the raw branch of process_file ends in the handler of
\* IOError.
catches_IOError(files, file_data, also_check_archive) ==
    LET f == FileAt(files, file_data.path)
    IN  (~f.is_zip \/ also_check_archive) /\ f.io_error

\* Line 365: pop(0), or IndexError; the worker then calls print_thread with
\* the path, or with DONE (lines 366-368, 374), and waits for the lock.
TakeFile(t) ==
    /\ pc = "join" /\ tpc[t] = "pop"
    /\ IF files_data # <<>>
       THEN /\ next_file' = [next_file EXCEPT ![t] = Head(files_data)]
            /\ files_data' = Tail(files_data)
            /\ tpc' = [tpc EXCEPT ![t] = "lock_thread"]
       ELSE /\ tpc' = [tpc EXCEPT ![t] = "lock_done"]
            /\ UNCHANGED <<files_data, next_file>>
    /\ UNCHANGED <<pc, selvars, disk, hash_index, globals, hashvars, worklist,
                   intermediate_results, lock>>

\* with self.lock (classes.py 235, 244): the lock is taken when it is free.
Acquire(t) ==
    /\ pc = "join" /\ tpc[t] \in {"lock_thread", "lock_done", "lock_bar"}
    /\ ~lock
    /\ lock' = TRUE
    /\ tpc' = [tpc EXCEPT ![t] = CASE tpc[t] = "lock_thread" -> "print_thread"
                                   [] tpc[t] = "lock_done" -> "print_done"
                                   [] tpc[t] = "lock_bar" -> "print_bar"]
    /\ UNCHANGED <<pc, selvars, disk, hash_index, globals, hashvars,
                   files_data, worklist, intermediate_results, next_file>>

\* The end of the with block (classes.py 236-237, 245-259): the line is
\* written and the lock released; after DONE the loop is left (line 375).
Release(t) ==
    /\ pc = "join" /\ tpc[t] \in LOCKED_WRITES
    /\ lock' = FALSE
    /\ tpc' = [tpc EXCEPT ![t] = CASE tpc[t] = "print_thread" -> "archive"
                                   [] tpc[t] = "print_done" -> "done"
                                   [] tpc[t] = "print_bar" -> "pop"]
    /\ UNCHANGED <<pc, selvars, disk, hash_index, globals, hashvars,
                   files_data, worklist, intermediate_results, next_file>>

\* Lines 420-440: the archive branch of process_file: an exception that is
\* not caught ends the thread; BadZipFile is caught and its message printed
\* (lines 437-440); else the raw branch follows.
ReadArchive(t) ==
    /\ pc = "join" /\ tpc[t] = "archive"
    /\ tpc' = [tpc EXCEPT ![t] =
                  IF process_file_raises(disk, next_file[t]) THEN "raised"
                  ELSE IF catches_BadZipFile(disk, next_file[t])
                       THEN "print_zip_error"
                  ELSE "raw"]
    /\ UNCHANGED <<pc, selvars, disk, hash_index, globals, hashvars,
                   files_data, worklist, intermediate_results, next_file,
                   lock>>

\* Lines 437-440: the message is written.
PrintedZipError(t) ==
    /\ pc = "join" /\ tpc[t] = "print_zip_error"
    /\ tpc' = [tpc EXCEPT ![t] = "raw"]
    /\ UNCHANGED <<pc, selvars, disk, hash_index, globals, hashvars,
                   files_data, worklist, intermediate_results, next_file,
                   lock>>

\* process_file returns (line 456) and its result is appended (line 369);
\* the worker then calls print_bar (line 372) and waits for the lock.
Returned(t) ==
    /\ intermediate_results' = Append(
           intermediate_results,
           process_file(disk, next_file[t], also_check_archive_of(dat), RULES,
                        MAX_FILE_SIZE, CHUNK_SIZE))
    /\ tpc' = [tpc EXCEPT ![t] = "lock_bar"]

\* Lines 441-455: the raw branch of process_file: IOError is caught and its
\* message printed (lines 452-455); else the function returns.
ReadRaw(t) ==
    /\ pc = "join" /\ tpc[t] = "raw"
    /\ IF catches_IOError(disk, next_file[t], also_check_archive_of(dat))
       THEN /\ tpc' = [tpc EXCEPT ![t] = "print_io_error"]
            /\ UNCHANGED intermediate_results
       ELSE Returned(t)
    /\ UNCHANGED <<pc, selvars, disk, hash_index, globals, hashvars,
                   files_data, worklist, next_file, lock>>

\* Lines 452-456: the message is written and the function returns.
PrintedIoError(t) ==
    /\ pc = "join" /\ tpc[t] = "print_io_error"
    /\ Returned(t)
    /\ UNCHANGED <<pc, selvars, disk, hash_index, globals, hashvars,
                   files_data, worklist, next_file, lock>>

NextPrint ==
    \/ ScanDir
    \/ \E t \in 1..MaxThreads : t \in DOMAIN tpc /\ TakeFile(t)
    \/ \E t \in 1..MaxThreads : t \in DOMAIN tpc /\ Acquire(t)
    \/ \E t \in 1..MaxThreads : t \in DOMAIN tpc /\ Release(t)
    \/ \E t \in 1..MaxThreads : t \in DOMAIN tpc /\ ReadArchive(t)
    \/ \E t \in 1..MaxThreads : t \in DOMAIN tpc /\ PrintedZipError(t)
    \/ \E t \in 1..MaxThreads : t \in DOMAIN tpc /\ ReadRaw(t)
    \/ \E t \in 1..MaxThreads : t \in DOMAIN tpc /\ PrintedIoError(t)
    \/ JoinAndMerge

SpecPrint == InitIdx /\ [][NextPrint]_vars

\* The workers that are writing to the terminal.
C21_Writers == {t \in DOMAIN tpc : tpc[t] \in LOCKED_WRITES \cup ERROR_WRITES}

\* C21: a worker writes to the terminal only while it holds the lock of the
\* progress bar, so no two workers write at the same time.
C21_WritesUnderLock ==
    /\ C21_Writers # {} => lock
    /\ Cardinality(C21_Writers) <= 1


\* The candidates of all groups.
C22_Candidates ==
    UNION {Range(parsed_games[key]) : key \in DOMAIN parsed_games}

\* C22: after scoring, score.languages of every candidate is <= 0, and it
\* is 0 exactly when none of the languages of the candidate is among the
\* selected languages.
C22_LanguageScoreSign ==
    pc = "group" =>
        \A x \in C22_Candidates :
            /\ x.score.languages <= 0
            /\ x.score.languages = 0
                   <=> Range(x.languages) \cap Range(opts.languages) = {}

\* Scored groups holding a candidate with a selected language, one with
\* languages none of which is selected, and one without any language.
C22_Witness ==
    /\ pc = "group" /\ opts.languages # <<>>
    /\ \E x \in C22_Candidates : x.score.languages < 0
    /\ \E x \in C22_Candidates :
           x.languages # <<>> /\ x.score.languages = 0
    /\ \E x \in C22_Candidates : x.languages = <<>>


\* The six padded fields of a candidate.
C23_Fields == {"revision", "version", "sample", "demo", "beta", "proto"}

\* C23: after the padding pass all candidates of a group have, for each of
\* the six fields, padded strings of the same length.
C23_PaddedWidthsEqual ==
    pc = "group" =>
        \A key \in DOMAIN parsed_games :
            \A p, q \in DOMAIN parsed_games[key] :
                \A f \in C23_Fields :
                    Len(parsed_games[key][p][f]) = Len(parsed_games[key][q][f])


\* The group of a parent as parse_games built it, in insertion order.
C24_Inserted(key) ==
    parse_games(dat, COUNTRY_REGION_CORRELATION, <<>>, opts).games[key]

\* The positions at which the candidate x was inserted into the group
\* inserted.
C24_Positions(inserted, x) ==
    {n \in DOMAIN inserted :
        /\ inserted[n].input_index = x.input_index
        /\ inserted[n].region = x.region
        /\ inserted[n].name = x.name}

\* Two candidates with equal 16-component keys.
C24_KeyEqual(x, y) ==
    \A k \in 1..16 : C2_Component(x, k) = C2_Component(y, k)

\* C24: candidates are inserted into their group in DAT order (input_index
\* does not decrease along the group), and after sorting candidates with
\* equal keys are in their insertion order, the one earlier in the DAT
\* first.
C24_StableInDatOrder ==
    /\ pc = "sort" =>
        \A key \in DOMAIN parsed_games :
            \A p, q \in DOMAIN parsed_games[key] :
                p < q => parsed_games[key][p].input_index
                             <= parsed_games[key][q].input_index
    /\ pc = "group" =>
        \A key \in DOMAIN parsed_games :
            LET inserted == C24_Inserted(key)
                group == parsed_games[key]
            IN  \A p, q \in DOMAIN group :
                    (p < q /\ C24_KeyEqual(group[p], group[q])) =>
                        /\ group[p].input_index <= group[q].input_index
                        /\ \E a \in C24_Positions(inserted, group[p]),
                              b \in C24_Positions(inserted, group[q]) :
                               a < b

\* A sorted group with two candidates of different DAT entries whose keys
\* are equal, and two candidates of one entry whose keys are equal.
C24_Witness ==
    /\ pc = "group"
    /\ \E key \in DOMAIN parsed_games :
        /\ \E p, q \in DOMAIN parsed_games[key] :
            /\ p < q
            /\ C24_KeyEqual(parsed_games[key][p], parsed_games[key][q])
            /\ parsed_games[key][p].input_index
                   < parsed_games[key][q].input_index
        /\ \E p, q \in DOMAIN parsed_games[key] :
            /\ p < q
            /\ C24_KeyEqual(parsed_games[key][p], parsed_games[key][q])
            /\ parsed_games[key][p].input_index
                   = parsed_games[key][q].input_index
            /\ parsed_games[key][p].region # parsed_games[key][q].region


\* The keys of the candidates of a group, by position.
C25_Keys(group) == [p \in DOMAIN group |-> generate(group[p], opts)]

\* x <= y in the order induced by the key: the key of y is not smaller.
C25_LessEq(kx, ky) == ~TupleLess(ky, kx)

\* Any two candidates of a group are comparable and the relation is
\* transitive.
C25_TotalPreorder(keys) ==
    /\ \A p, q \in DOMAIN keys :
           C25_LessEq(keys[p], keys[q]) \/ C25_LessEq(keys[q], keys[p])
    /\ \A p, q, r \in DOMAIN keys :
           (C25_LessEq(keys[p], keys[q]) /\ C25_LessEq(keys[q], keys[r]))
               => C25_LessEq(keys[p], keys[r])

C26_WalkEnds == pc = "walk" /\ pc' = "group"

\* The walk of the current group ends in this step with candidates tried
\* and none of them resolved.
C26_EndsUnresolved == C26_WalkEnds /\ selected' = selected /\ i > 0

\* C26: whenever the walk of a parent group ends without any candidate
\* resolved, every candidate tried having been not found, the last warning
\* logged is 'no eligible candidates' for that parent, after the 'not found,
\* trying next one' warnings of the candidates; and the warning is never
\* logged for a group from which a candidate was selected.
C26_FinalWarning ==
    [][/\ C26_EndsUnresolved =>
            /\ log' # <<>>
            /\ log'[Len(log')] = <<"no eligible candidates", game_key>>
            /\ \E n \in 1..(Len(log') - 1) :
                   log'[n][1] = "candidate not found, trying next one"
       /\ (C26_WalkEnds /\ selected' # selected) =>
            \A n \in DOMAIN log' :
                log'[n] # <<"no eligible candidates", game_key>>]_vars


\* The walk stands at a later candidate that can be resolved, the leading
\* candidate having matched no exclude-after pattern and the candidates
\* before this one having been not found.
C28_AtLaterResolvable ==
    /\ pc = "walk" /\ 0 < i /\ i < Len(entries)
    /\ ~check_in_pattern_list(entries[1].name, opts.exclude_after)
    /\ C1_Resolvable(entries[i + 1], disk)

\* C28: the exclude-after patterns decide on the leading candidate of a
\* group only: when it matches none of them and is not found, the first
\* later candidate that can be resolved is selected, whether or not its name
\* matches an exclude-after pattern.
C28_OnlyLeadingExcluded ==
    [][C28_AtLaterResolvable =>
            /\ Len(selected') = Len(selected) + 1
            /\ Taken(selected'[Len(selected')]) = entries[i + 1]]_vars


\* C27: the header rules are applied to a buffer exactly when a rule list
\* that is not empty is loaded and the size of the buffer is at most
\* max_file_size; any other buffer, one of max_file_size + 1 bytes or any
\* buffer without rules, is hashed in chunks untransformed, and its digest
\* is the SHA-1 of its raw bytes.
C27_RulesWithinCapElseRaw ==
    pc = "hashed" =>
        /\ RulesApply => hasher = ApplyRules(RULES, internal_file)
        /\ ~RulesApply => /\ hasher = internal_file
                          /\ digest = Sha1(internal_file)


\* C29: with the hash index and an output directory, a candidate ends the
\* walk of its group only if at least one of its files was copied or moved
\* successfully; a candidate whose transfers all fail is not selected.
C29_SelectedOnlyIfTransferred ==
    (use_hashes(opts) /\ opts.output_dir # None) =>
        \A k \in DOMAIN selected :
            \E c \in DOMAIN selected[k].calls : selected[k].calls[c].ok


\* C30: for the languages l1, ..., ln of the command line, most preferred
\* first, and a weight > 0, a candidate whose only language is li has a
\* strictly lower score.languages than one whose only language is lj
\* whenever i < j.
C30_EarlierLanguageScoresLower ==
    (pc = "group" /\ opts.language_weight > 0) =>
        \A a, b \in DOMAIN opts.languages :
            a < b =>
                \A x, y \in C22_Candidates :
                    (x.languages = <<opts.languages[a]>>
                     /\ y.languages = <<opts.languages[b]>>)
                        => x.score.languages < y.score.languages

\* Scored groups with two selected languages and candidates whose only
\* language is the first and the second of them.
C30_Witness ==
    /\ pc = "group" /\ Len(opts.languages) = 2
    /\ \E x, y \in C22_Candidates :
        /\ x.languages = <<opts.languages[1]>>
        /\ y.languages = <<opts.languages[2]>>
        /\ x.score.languages = 0 - 2 * opts.language_weight
        /\ y.score.languages = 0 - opts.language_weight

====
